---- MODULE Spec2Model ----
(***************************************************************************)
(* Endless-runner boat game: jump/dive physics (physics.ts), the obstacle  *)
(* manager (ObstacleManager), the keyboard hook and the race frame loop of *)
(* the Visualizer component.                                               *)
(*                                                                         *)
(* Numbers are fixed point.  Time is counted in ticks of 1/TicksPerSecond  *)
(* s, velocity in 1/VelScale, dive progress in 1/ProgScale, heights in     *)
(* 1/YScale and loudness in 1/LoudScale, chosen so that every product the  *)
(* code forms (GRAVITY*dt, velocityY*dt, DIVE_SPEED*dt,                    *)
(* DIVE_DEPTH*diveProgress) is an exact integer.                           *)
(***************************************************************************)
EXTENDS Integers, Sequences, FiniteSets, TLC

\* ------------------------------------------------------------------ scales
TicksPerSecond == 120
VelScale == 4
ProgScale == 15
YScale == 2400
LoudScale == 100
\* world X (worldOffset, worldX, screen X) in 1/XScale
XScale == 100
\* Math.random() returns r / RandScale for an r in 0..RandScale-1
RandScale == 60

\* ------------------------------------------------------------------ constants.ts
JUMP_VELOCITY == 10
GRAVITY == 30
DIVE_SPEED == 8
\* DIVE_DEPTH = -0.6
DIVE_DEPTH == (-6 * YScale) \div 10
\* ACTION_THRESHOLD = 0.25
ACTION_THRESHOLD == (25 * LoudScale) \div 100
\* ACTION_COOLDOWN = 0.3 s
ACTION_COOLDOWN == (3 * TicksPerSecond) \div 10
\* BOAT_BASE_Y = 0.35
BOAT_BASE_Y == (35 * YScale) \div 100

WORLD_SCROLL_SPEED == 3
OBSTACLE_SPAWN_DELAY == 3
OBSTACLE_MIN_GAP == 4
OBSTACLE_GAP_VARIANCE == 3
OBSTACLE_SPAWN_DISTANCE == 8
MAX_OBSTACLE_DUPLICATION == 2
\* ObstacleManager.trySpawn: if (this.obstacleHistory.length > 10)
HISTORY_LIMIT == 10
\* isObstacleOffScreen: screenX < -5
OFFSCREEN_X == -5

SCORE_COEFFICIENT == 3
\* BOAT_X = -1.5
BOAT_X == (-15 * XScale) \div 10
\* BOAT_HITBOX_WIDTH = 0.8, BOAT_HITBOX_HEIGHT = 0.6
BOAT_HITBOX_WIDTH == (8 * XScale) \div 10
BOAT_HITBOX_HEIGHT == (6 * YScale) \div 10
\* obstacles.ts: HITBOX_SHRINK = 0.6 = HITBOX_SHRINK_NUM / 10
HITBOX_SHRINK_NUM == 6
\* BOAT_SAIL_HEIGHT = 0.8, BOAT_SAIL_OFFSET_Y = 0.3, BOAT_SAIL_OFFSET_X = 0
BOAT_SAIL_HEIGHT == (8 * YScale) \div 10
BOAT_SAIL_OFFSET_Y == (3 * YScale) \div 10
BOAT_SAIL_OFFSET_X == 0

\* ------------------------------------------------------------------ bounds
\* updatePhysics is called with dt in 1..MaxDt ticks (1/120 s .. MaxDt/120 s)
MaxDt == 2
\* the wave displacement of the water surface takes the values
\* -MaxWave..MaxWave times WaveStep
MaxWave == 1
WaveStep == YScale \div 10

\* Math.random() is drawn from RandSteps evenly spaced values
RandSteps == 3
\* spawn frames run up to a world offset of MaxSpawnOffset world units
MaxSpawnOffset == 65
\* the manager's methods are called at world offsets up to MaxOffset world units
MaxOffset == 24

\* a race is followed up to MaxGameOffset world units
MaxGameOffset == 20

Max(a, b) == IF a >= b THEN a ELSE b
Min(a, b) == IF a <= b THEN a ELSE b

Dts == 1..MaxDt
WaterLevels == {BOAT_BASE_Y + k * WaveStep : k \in (0 - MaxWave)..MaxWave}
Loudnesses == {0, ACTION_THRESHOLD, ACTION_THRESHOLD + 1, LoudScale}

Randoms == {(k * RandScale) \div RandSteps : k \in 0..(RandSteps - 1)}

VARIABLES
    physics,        \* PhysicsState
    lastCall,       \* the last physics call: its name, arguments and result
    sinceLanding,   \* ticks of updatePhysics since the last landing, -1 if none
    jumpTrack,      \* the updates of the jump in progress (or just landed)
    afterLanding,   \* the updatePhysics calls since the last landing
    worldOffset,    \* worldOffsetRef.current
    mgr,            \* ObstacleManager: obstacles, lastObstacleWorldX, obstacleHistory
    spawnLog,       \* the obstacles spawned in this race: how many, the last types
    removeLog,      \* the last removeOffScreen call: the list before it, its argument
    screen,         \* the screen state of the last render (what closures and JSX see)
    pendingScreen,  \* the screen state after the queued setScreen calls
    highScore,      \* the highScore state of the last render
    pendingHighScore, \* the highScore state after the queued setHighScore calls
    isNewHighScore,
    score,
    storage,        \* localStorage[HIGH_SCORE_KEY], a string of digits, <<>> if absent
    lastFrameTime,  \* lastFrameTimeRef.current: 0, or 1 for a time stamp
    isDownKeyHeld,  \* isDownKeyHeldRef.current
    boat,           \* boatRef.current: "pending" (null), "loaded" or "failed" (null)
    rafPending,     \* an animation frame is requested (frameId is live)
    event,          \* the last step, if a key press (its code), a race frame (its
                    \* steps) or a race start
    lanes,          \* the two-lane race: its view, screen, winner and boat positions
    audio,          \* a call of getFrequencyAverage: its arguments and its result
    atDelay,        \* an ObstacleManager called at the end of the spawn delay, its
                    \* numbers IEEE doubles
    slider,         \* a FrequencySlider: its range prop, its state and the
                    \* Slider.Root it renders
    mic             \* useAudio: its refs, the start() calls awaiting getUserMedia
                    \* and the microphone streams that are live

physVars == <<physics, lastCall, sinceLanding, jumpTrack, afterLanding>>

\* ------------------------------------------------------------------ physics.ts
createPhysicsState ==
    [velocityY |-> 0, isJumping |-> FALSE, isDiving |-> FALSE,
     diveProgress |-> 0, actionCooldown |-> 0]

resetPhysicsState_FlagsOnly(state) ==
    [state EXCEPT !.isJumping = FALSE, !.isDiving = FALSE, !.actionCooldown = 0]

resetPhysicsState(state) ==
    [state EXCEPT !.velocityY = 0, !.isJumping = FALSE, !.isDiving = FALSE,
                  !.diveProgress = 0, !.actionCooldown = 0]

triggerJump_IgnoresCooldown(state) ==
    IF ~state.isJumping /\ ~state.isDiving
    THEN [state |-> [state EXCEPT !.isJumping = TRUE,
                                  !.velocityY = JUMP_VELOCITY * VelScale],
          ret |-> TRUE]
    ELSE [state |-> state, ret |-> FALSE]

triggerJump(state) ==
    IF ~state.isJumping /\ ~state.isDiving /\ state.actionCooldown = 0
    THEN [state |-> [state EXCEPT !.isJumping = TRUE,
                                  !.velocityY = JUMP_VELOCITY * VelScale],
          ret |-> TRUE]
    ELSE [state |-> state, ret |-> FALSE]

triggerDive_WhileJumping(state) ==
    IF ~state.isDiving
    THEN [state |-> [state EXCEPT !.isDiving = TRUE], ret |-> TRUE]
    ELSE [state |-> state, ret |-> FALSE]

triggerDive_NeedsCooldown(state) ==
    IF ~state.isJumping /\ ~state.isDiving /\ state.actionCooldown = 0
    THEN [state |-> [state EXCEPT !.isDiving = TRUE], ret |-> TRUE]
    ELSE [state |-> state, ret |-> FALSE]

triggerDive(state) ==
    IF ~state.isJumping /\ ~state.isDiving
    THEN [state |-> [state EXCEPT !.isDiving = TRUE], ret |-> TRUE]
    ELSE [state |-> state, ret |-> FALSE]

checkAudioTriggers_DiveFirst(state, jumpLoudness, diveLoudness) ==
    IF state.isJumping \/ state.isDiving THEN state
    ELSE IF diveLoudness > ACTION_THRESHOLD
         THEN triggerDive(state).state
    ELSE IF jumpLoudness > ACTION_THRESHOLD /\ state.actionCooldown = 0
         THEN triggerJump(state).state
    ELSE state

checkAudioTriggers(state, jumpLoudness, diveLoudness) ==
    IF state.isJumping \/ state.isDiving THEN state
    ELSE IF jumpLoudness > ACTION_THRESHOLD /\ state.actionCooldown = 0
         THEN triggerJump(state).state
    ELSE IF diveLoudness > ACTION_THRESHOLD
         THEN triggerDive(state).state
    ELSE state

GravityStep_Weightless(dt) == 0 * dt

\* GRAVITY * dt, in velocity units
GravityStep(dt) == (GRAVITY * dt * VelScale) \div TicksPerSecond
\* velocityY * dt, in height units
Rise(velocityY, dt) == (velocityY * dt * YScale) \div (VelScale * TicksPerSecond)
\* DIVE_SPEED * dt, in progress units
DiveStep(dt) == (DIVE_SPEED * dt * ProgScale) \div TicksPerSecond
\* DIVE_DEPTH * diveProgress, in height units
DiveOffset(diveProgress) == (DIVE_DEPTH * diveProgress) \div ProgScale

decayCooldown_WhileIdle(state, dt) ==
    IF state.actionCooldown > 0 /\ ~state.isJumping /\ ~state.isDiving
    THEN [state EXCEPT !.actionCooldown = Max(0, state.actionCooldown - dt)]
    ELSE state

\* physics.ts 95-98
decayCooldown(state, dt) ==
    IF state.actionCooldown > 0
    THEN [state EXCEPT !.actionCooldown = Max(0, state.actionCooldown - dt)]
    ELSE state

integrate_LandsAtBase(state, dt, waterLevel, isDiveHeld) ==
    IF state.isJumping THEN
        LET v == state.velocityY - GravityStep(dt)
            newY == waterLevel + Rise(v, dt)
        IN  IF newY <= waterLevel
            THEN [state |-> [state EXCEPT !.velocityY = 0, !.isJumping = FALSE,
                                          !.actionCooldown = ACTION_COOLDOWN],
                  y |-> BOAT_BASE_Y, landed |-> TRUE]
            ELSE [state |-> [state EXCEPT !.velocityY = v],
                  y |-> newY, landed |-> FALSE]
    ELSE IF state.isDiving THEN
        LET p == IF isDiveHeld
                 THEN Min(ProgScale, state.diveProgress + DiveStep(dt))
                 ELSE Max(0, state.diveProgress - DiveStep(dt))
            s1 == [state EXCEPT !.diveProgress = p,
                                !.isDiving = IF ~isDiveHeld /\ p = 0
                                             THEN FALSE ELSE @]
        IN  [state |-> s1, y |-> waterLevel + DiveOffset(p), landed |-> FALSE]
    ELSE [state |-> state, y |-> waterLevel, landed |-> FALSE]

integrate_DiveSetsCooldown(state, dt, waterLevel, isDiveHeld) ==
    IF state.isJumping THEN
        LET v == state.velocityY - GravityStep(dt)
            newY == waterLevel + Rise(v, dt)
        IN  IF newY <= waterLevel
            THEN [state |-> [state EXCEPT !.velocityY = 0, !.isJumping = FALSE,
                                          !.actionCooldown = ACTION_COOLDOWN],
                  y |-> waterLevel, landed |-> TRUE]
            ELSE [state |-> [state EXCEPT !.velocityY = v],
                  y |-> newY, landed |-> FALSE]
    ELSE IF state.isDiving THEN
        LET p == IF isDiveHeld
                 THEN Min(ProgScale, state.diveProgress + DiveStep(dt))
                 ELSE Max(0, state.diveProgress - DiveStep(dt))
            s1 == [state EXCEPT !.diveProgress = p,
                                !.isDiving = IF ~isDiveHeld /\ p = 0
                                             THEN FALSE ELSE @,
                                !.actionCooldown = IF ~isDiveHeld /\ p = 0
                                                   THEN ACTION_COOLDOWN ELSE @]
        IN  [state |-> s1, y |-> waterLevel + DiveOffset(p), landed |-> FALSE]
    ELSE [state |-> state, y |-> waterLevel, landed |-> FALSE]

\* physics.ts 100-133: the jump, dive and float branches
integrate(state, dt, waterLevel, isDiveHeld) ==
    IF state.isJumping THEN
        LET v == state.velocityY - GravityStep(dt)
            newY == waterLevel + Rise(v, dt)
        IN  IF newY <= waterLevel
            THEN [state |-> [state EXCEPT !.velocityY = 0, !.isJumping = FALSE,
                                          !.actionCooldown = ACTION_COOLDOWN],
                  y |-> waterLevel, landed |-> TRUE]
            ELSE [state |-> [state EXCEPT !.velocityY = v],
                  y |-> newY, landed |-> FALSE]
    ELSE IF state.isDiving THEN
        LET p == IF isDiveHeld
                 THEN Min(ProgScale, state.diveProgress + DiveStep(dt))
                 ELSE Max(0, state.diveProgress - DiveStep(dt))
            s1 == [state EXCEPT !.diveProgress = p,
                                !.isDiving = IF ~isDiveHeld /\ p = 0
                                             THEN FALSE ELSE @]
        IN  [state |-> s1, y |-> waterLevel + DiveOffset(p), landed |-> FALSE]
    ELSE [state |-> state, y |-> waterLevel, landed |-> FALSE]

\* updatePhysics: the new state, the returned Y and whether the call landed
updatePhysics(state, dt, waterLevel, isDiveHeld) ==
    integrate(decayCooldown(state, dt), dt, waterLevel, isDiveHeld)

\* the steps of one updatePhysics call, in the order they run
updatePhysicsSteps == <<"cooldownDecay", "integrate">>

\* ------------------------------------------------------------------ calls
NoCall == [op |-> "none", ret |-> FALSE, dt |-> 0, waterLevel |-> 0,
           held |-> FALSE, jl |-> 0, dl |-> 0, y |-> 0, landed |-> FALSE,
           fired |-> "none", ended |-> "none", tiny |-> FALSE]

\* what a call started: a jump, a dive or nothing
Fired(before, after) ==
    IF after.isJumping /\ ~before.isJumping THEN "jump"
    ELSE IF after.isDiving /\ ~before.isDiving THEN "dive"
    ELSE "none"

\* what a call ended: a jump, a dive or nothing
Ended(before, after) ==
    IF before.isJumping /\ ~after.isJumping THEN "jump"
    ELSE IF before.isDiving /\ ~after.isDiving THEN "dive"
    ELSE "none"

\* jumpTrack follows a jump whose updates all had the same dt and waterLevel:
\* n such updates so far; void once the inputs differed; done on the landing
NoJump == [n |-> 0, dt |-> 0, level |-> 0, void |-> FALSE, done |-> FALSE]
VoidJump == [NoJump EXCEPT !.void = TRUE]

\* the bookkeeping of one updatePhysics call on the jump in progress
TrackJump(track, wasJumping, dt, waterLevel, landed) ==
    IF ~wasJumping \/ track.done THEN NoJump
    ELSE IF track.void THEN VoidJump
    ELSE IF track.n > 0 /\ (track.dt # dt \/ track.level # waterLevel) THEN VoidJump
    ELSE [n |-> track.n + 1, dt |-> dt, level |-> waterLevel, void |-> FALSE,
          done |-> landed]

\* any other call: the record of a finished jump is dropped
KeepJump(track) == IF track.done THEN NoJump ELSE track

\* ceil(ACTION_COOLDOWN / dt) + 1
CooldownUpdates(dt) == ((ACTION_COOLDOWN + dt - 1) \div dt) + 1

\* afterLanding counts the updates since the last landing while they all had
\* the same dt, up to CooldownUpdates(dt); void once the dt changed
NoLanding == [live |-> FALSE, n |-> 0, dt |-> 0, void |-> FALSE]

TrackLanding(track, dt, landed) ==
    IF landed THEN [NoLanding EXCEPT !.live = TRUE]
    ELSE IF ~track.live \/ track.void THEN track
    ELSE IF track.n > 0 /\ track.dt # dt
         THEN [NoLanding EXCEPT !.live = TRUE, !.void = TRUE]
    ELSE [track EXCEPT !.n = Min(CooldownUpdates(dt), track.n + 1), !.dt = dt]

PhysInit ==
    /\ physics = createPhysicsState
    /\ lastCall = NoCall
    /\ sinceLanding = -1
    /\ jumpTrack = NoJump
    /\ afterLanding = NoLanding

CallTriggerJump ==
    LET r == triggerJump(physics) IN
    /\ physics' = r.state
    /\ lastCall' = [NoCall EXCEPT !.op = "triggerJump", !.ret = r.ret,
                                  !.fired = Fired(physics, r.state)]
    /\ jumpTrack' = IF r.ret THEN NoJump ELSE KeepJump(jumpTrack)
    /\ UNCHANGED <<sinceLanding, afterLanding>>

CallTriggerDive ==
    LET r == triggerDive(physics) IN
    /\ physics' = r.state
    /\ lastCall' = [NoCall EXCEPT !.op = "triggerDive", !.ret = r.ret,
                                  !.fired = Fired(physics, r.state)]
    /\ jumpTrack' = KeepJump(jumpTrack)
    /\ UNCHANGED <<sinceLanding, afterLanding>>

CallCheckAudioTriggers ==
    \E jl \in Loudnesses, dl \in Loudnesses :
        /\ physics' = checkAudioTriggers(physics, jl, dl)
        /\ lastCall' = [NoCall EXCEPT !.op = "checkAudioTriggers",
                                      !.jl = jl, !.dl = dl,
                                      !.fired = Fired(physics, physics')]
        /\ jumpTrack' = IF physics'.isJumping /\ ~physics.isJumping
                        THEN NoJump ELSE KeepJump(jumpTrack)
        /\ UNCHANGED <<sinceLanding, afterLanding>>

CallUpdatePhysics ==
    \E dt \in Dts, waterLevel \in WaterLevels, held \in BOOLEAN :
        LET r == updatePhysics(physics, dt, waterLevel, held) IN
        /\ physics' = r.state
        /\ lastCall' = [NoCall EXCEPT !.op = "updatePhysics", !.dt = dt,
                                      !.waterLevel = waterLevel, !.held = held,
                                      !.y = r.y, !.landed = r.landed,
                                      !.ended = Ended(physics, r.state)]
        /\ sinceLanding' = IF r.landed THEN 0
                           ELSE IF sinceLanding < 0 THEN sinceLanding
                           ELSE Min(ACTION_COOLDOWN, sinceLanding + dt)
        /\ jumpTrack' = TrackJump(jumpTrack, physics.isJumping, dt, waterLevel,
                                  r.landed)
        /\ afterLanding' = TrackLanding(afterLanding, dt, r.landed)

CallResetPhysicsState ==
    /\ physics' = resetPhysicsState(physics)
    /\ lastCall' = [NoCall EXCEPT !.op = "resetPhysicsState"]
    /\ sinceLanding' = -1
    /\ jumpTrack' = NoJump
    /\ afterLanding' = NoLanding

PhysNext ==
    \/ CallTriggerJump
    \/ CallTriggerDive
    \/ CallCheckAudioTriggers
    \/ CallUpdatePhysics
    \/ CallResetPhysicsState

\* ------------------------------------------------------------------ repeated updates
\* updatePhysics called again and again, between trigger calls, with a dt of
\* 1..MaxDt ticks
RepeatUpdate ==
    \E dt \in Dts, waterLevel \in WaterLevels, held \in BOOLEAN :
        LET r == updatePhysics(physics, dt, waterLevel, held) IN
        /\ physics' = r.state
        /\ lastCall' = [NoCall EXCEPT !.op = "updatePhysics", !.dt = dt,
                                      !.waterLevel = waterLevel, !.held = held,
                                      !.ended = Ended(physics, r.state)]
        /\ UNCHANGED <<sinceLanding, jumpTrack, afterLanding>>

\* JUMP_VELOCITY - 4
FastRise == (JUMP_VELOCITY - 4) * VelScale

\* updatePhysics with dt = 5e-18 s, in IEEE doubles.  GRAVITY * dt = 1.5e-16 is
\* less than half the distance between the doubles at a velocityY of 2 or
\* more, and DIVE_SPEED * dt = 4e-17 less than half the distance between the
\* doubles at 1, so velocityY -= GRAVITY * dt leaves velocityY as it is and
\* Math.max(0, 1 - DIVE_SPEED * dt) and Math.min(1, 1 + DIVE_SPEED * dt) are 1;
\* velocityY * dt is more than half the distance between the doubles at a
\* waterLevel in [0.25, 0.5) when velocityY >= 6, so newY > waterLevel and
\* the jump does not land.  The call is made where this covers it: no cooldown
\* running, a jump rising at FastRise or more, a dive fully under
RepeatUpdateTiny ==
    \E waterLevel \in WaterLevels, held \in BOOLEAN :
        /\ physics.actionCooldown = 0
        /\ physics.isJumping => physics.velocityY >= FastRise
        /\ physics.isDiving => physics.diveProgress = ProgScale
        /\ physics' = physics
        /\ lastCall' = [NoCall EXCEPT !.op = "updatePhysics", !.tiny = TRUE,
                                      !.waterLevel = waterLevel, !.held = held]
        /\ UNCHANGED <<sinceLanding, jumpTrack, afterLanding>>

RepeatNext ==
    \/ CallTriggerJump
    \/ CallTriggerDive
    \/ RepeatUpdate
    \/ RepeatUpdateTiny

obsVars == <<worldOffset, mgr, spawnLog, removeLog>>

gameVars == <<screen, pendingScreen, highScore, pendingHighScore, isNewHighScore,
              score, storage, lastFrameTime, isDownKeyHeld, boat, rafPending, event>>

\* the components beside the endless runner
sideVars == <<lanes, audio, atDelay, slider, mic>>

vars == <<physics, lastCall, sinceLanding, jumpTrack, afterLanding, worldOffset, mgr, spawnLog,
          removeLog, screen, pendingScreen, highScore, pendingHighScore,
          isNewHighScore, score, storage, lastFrameTime, isDownKeyHeld, boat,
          rafPending, event, lanes, audio, atDelay, slider, mic>>

\* ------------------------------------------------------------------ obstacles.ts
\* OBSTACLE_CONFIGS: width and hitboxOffsetX in X units, height and baseY in
\* height units
OBSTACLE_CONFIGS(type) ==
    CASE type = "SPIRAL" ->
            [width |-> (5 * XScale) \div 10, height |-> (3 * YScale) \div 10,
             baseY |-> (55 * YScale) \div 100, floatsOnWater |-> TRUE,
             hitboxOffsetX |-> 0]
      [] type = "MOLAR" ->
            [width |-> (5 * XScale) \div 10, height |-> (5 * YScale) \div 10,
             baseY |-> (50 * YScale) \div 100, floatsOnWater |-> TRUE,
             hitboxOffsetX |-> 0]
      [] type = "TOOTHBRUSH" ->
            [width |-> XScale, height |-> (3 * YScale) \div 10,
             baseY |-> YScale, floatsOnWater |-> FALSE,
             hitboxOffsetX |-> (7 * XScale) \div 10]

\* the hitbox half extent: (size * HITBOX_SHRINK) / 2
HalfExtent(size) == (size * HITBOX_SHRINK_NUM) \div 20

\* updateObstacle: the mesh position of an obstacle in this frame; dy is the
\* wave displacement at its screen X
meshPosition(obstacle, offset, dy) ==
    LET config == OBSTACLE_CONFIGS(obstacle.type)
    IN  [x |-> obstacle.worldX - offset,
         y |-> IF config.floatsOnWater THEN config.baseY + dy ELSE config.baseY]

\* checkCollision: the AABB test of the boat against one obstacle mesh
checkCollision(boatX, boatY, boatWidth, boatHeight, type, mesh) ==
    LET config == OBSTACLE_CONFIGS(type)
        boatOffsetX == IF config.floatsOnWater THEN 0 ELSE BOAT_SAIL_OFFSET_X
        bHalfW == HalfExtent(boatWidth)
        bHalfH == HalfExtent(boatHeight + BOAT_SAIL_HEIGHT)
        boatCenterX == boatX + boatOffsetX
        boatCenterY == boatY + BOAT_SAIL_OFFSET_Y
        oHalfW == HalfExtent(config.width)
        oHalfH == HalfExtent(config.height)
        obstacleCenterX == mesh.x + config.hitboxOffsetX
    IN  /\ boatCenterX - bHalfW < obstacleCenterX + oHalfW
        /\ boatCenterX + bHalfW > obstacleCenterX - oHalfW
        /\ boatCenterY - bHalfH < mesh.y + oHalfH
        /\ boatCenterY + bHalfH > mesh.y - oHalfH

getJumpObstacleTypes == <<"SPIRAL", "MOLAR">>
getDiveObstacleTypes == <<"TOOTHBRUSH">>

createObstacle(type, worldX) == [type |-> type, worldX |-> worldX]

isObstacleOffScreen_Inclusive(obstacle, offset) ==
    obstacle.worldX - offset <= OFFSCREEN_X * XScale

isObstacleOffScreen(obstacle, offset) ==
    obstacle.worldX - offset < OFFSCREEN_X * XScale

\* ------------------------------------------------------------------ ObstacleManager
NewManager == [obstacles |-> <<>>, lastObstacleWorldX |-> 0, obstacleHistory |-> <<>>]

reset_KeepsHistory(m) == [m EXCEPT !.obstacles = <<>>, !.lastObstacleWorldX = 0]

reset(m) == [obstacles |-> <<>>, lastObstacleWorldX |-> 0, obstacleHistory |-> <<>>]

\* the length of the run of lastType that ends the history (trySpawn 64-69)
RECURSIVE consecutiveCount(_, _)
consecutiveCount(history, i) ==
    IF i >= 1 /\ history[i] = history[Len(history)]
    THEN 1 + consecutiveCount(history, i - 1)
    ELSE 0

\* Math.floor(Math.random() * n), as a 1-based index
RandomIndex(r, n) == ((r * n) \div RandScale) + 1

selectType_NoExclusion(history, rType) ==
    LET allTypes == getJumpObstacleTypes \o getDiveObstacleTypes
    IN  allTypes[RandomIndex(rType, Len(allTypes))]

\* trySpawn 59-76
selectType(history, rType) ==
    LET allTypes == getJumpObstacleTypes \o getDiveObstacleTypes
        otherTypes == SelectSeq(allTypes, LAMBDA t : t # history[Len(history)])
    IN  IF consecutiveCount(history, Len(history)) >= MAX_OBSTACLE_DUPLICATION
        THEN otherTypes[RandomIndex(rType, Len(otherTypes))]
        ELSE allTypes[RandomIndex(rType, Len(allTypes))]

\* trySpawn 83-88
pushHistory(history, type) ==
    LET h == Append(history, type)
    IN  IF Len(h) > HISTORY_LIMIT THEN Tail(h) ELSE h

spawns_AtGap(m, offset, rGap) ==
    LET spawnThreshold == offset + OBSTACLE_SPAWN_DISTANCE * XScale
        gap == OBSTACLE_MIN_GAP * XScale
               + (rGap * OBSTACLE_GAP_VARIANCE * XScale) \div RandScale
    IN  /\ offset > OBSTACLE_SPAWN_DELAY * WORLD_SCROLL_SPEED * XScale
        /\ ~(m.lastObstacleWorldX # 0 /\ spawnThreshold < m.lastObstacleWorldX + gap)

\* whether trySpawn(offset) creates an obstacle (trySpawn 48-57)
spawns(m, offset, rGap) ==
    LET spawnThreshold == offset + OBSTACLE_SPAWN_DISTANCE * XScale
        gap == OBSTACLE_MIN_GAP * XScale
               + (rGap * OBSTACLE_GAP_VARIANCE * XScale) \div RandScale
    IN  /\ offset > OBSTACLE_SPAWN_DELAY * WORLD_SCROLL_SPEED * XScale
        /\ ~(m.lastObstacleWorldX # 0 /\ spawnThreshold <= m.lastObstacleWorldX + gap)

trySpawn(m, offset, rGap, rType) ==
    LET spawnThreshold == offset + OBSTACLE_SPAWN_DISTANCE * XScale
        selectedType == selectType(m.obstacleHistory, rType)
    IN  IF ~spawns(m, offset, rGap) THEN m
        ELSE [obstacles |-> Append(m.obstacles, createObstacle(selectedType, spawnThreshold)),
              lastObstacleWorldX |-> spawnThreshold,
              obstacleHistory |-> pushHistory(m.obstacleHistory, selectedType)]

removeOffScreen(m, offset) ==
    [m EXCEPT !.obstacles =
        SelectSeq(m.obstacles, LAMBDA obs : ~isObstacleOffScreen(obs, offset))]

\* checkBoatCollision, after updateAll(offset) placed the meshes
checkBoatCollision(m, boatX, boatY, offset, dy) ==
    \E i \in 1..Len(m.obstacles) :
        checkCollision(boatX, boatY, BOAT_HITBOX_WIDTH, BOAT_HITBOX_HEIGHT,
                       m.obstacles[i].type, meshPosition(m.obstacles[i], offset, dy))

\* ------------------------------------------------------------------ logs
NoSpawns == [count |-> 0, last |-> <<>>]
NoRemove == [called |-> FALSE, before |-> <<>>, offset |-> 0]

\* the spawn log after a trySpawn call that took m0 to m1
LogSpawn(log, m0, m1) ==
    IF Len(m1.obstacles) = Len(m0.obstacles) THEN log
    ELSE LET types == Append(log.last, m1.obstacles[Len(m1.obstacles)].type)
         IN  [count |-> log.count + 1,
              last |-> IF Len(types) > MAX_OBSTACLE_DUPLICATION + 1
                       THEN Tail(types) ELSE types]

ObsInit ==
    /\ worldOffset = 0
    /\ mgr = NewManager
    /\ spawnLog = NoSpawns
    /\ removeLog = NoRemove

\* ------------------------------------------------------------------ spawn frames
\* the world offset advances by 5 world units per frame; with the random gap
\* the obstacles are then 5 or 10 world units apart
FrameDeltas == {5 * XScale}

\* the manager as a race drives it: trySpawn, then removeOffScreen, at each new
\* world offset (Visualizer.animate 344-359)
SpawnFrame ==
    \E delta \in FrameDeltas, rGap \in Randoms, rType \in Randoms :
        LET offset == worldOffset + delta
            m1 == trySpawn(mgr, offset, rGap, rType)
        IN  /\ offset <= MaxSpawnOffset * XScale
            /\ worldOffset' = offset
            /\ mgr' = removeOffScreen(m1, offset)
            /\ spawnLog' = LogSpawn(spawnLog, mgr, m1)
            /\ UNCHANGED removeLog

\* a new race: handleStartRace resets the offset and the manager
SpawnRestart ==
    /\ worldOffset' = 0
    /\ mgr' = reset(mgr)
    /\ spawnLog' = NoSpawns
    /\ removeLog' = NoRemove

SpawnNext ==
    \/ SpawnFrame /\ UNCHANGED <<physVars, gameVars, sideVars>>
    \/ SpawnRestart /\ UNCHANGED <<physVars, gameVars, sideVars>>

\* ------------------------------------------------------------------ manager calls
\* between two calls the world offset advances by 1 or 4 world units
CallDeltas == {XScale, 4 * XScale}
\* removeOffScreen is called with the current offset or one far ahead of it
FarAhead == 20 * XScale

CallAdvance ==
    \E delta \in CallDeltas :
        /\ worldOffset + delta <= MaxOffset * XScale
        /\ worldOffset' = worldOffset + delta
        /\ removeLog' = NoRemove
        /\ UNCHANGED <<mgr, spawnLog>>

CallTrySpawn ==
    \E rGap \in Randoms, rType \in Randoms :
        /\ mgr' = trySpawn(mgr, worldOffset, rGap, rType)
        /\ spawnLog' = LogSpawn(spawnLog, mgr, mgr')
        /\ removeLog' = NoRemove
        /\ UNCHANGED worldOffset

CallRemoveOffScreen ==
    \E offset \in {worldOffset, worldOffset + FarAhead} :
        /\ mgr' = removeOffScreen(mgr, offset)
        /\ removeLog' = [called |-> TRUE, before |-> mgr.obstacles, offset |-> offset]
        /\ UNCHANGED <<worldOffset, spawnLog>>

ObstaclesNext ==
    \/ CallAdvance /\ UNCHANGED <<physVars, gameVars, sideVars>>
    \/ CallTrySpawn /\ UNCHANGED <<physVars, gameVars, sideVars>>
    \/ CallRemoveOffScreen /\ UNCHANGED <<physVars, gameVars, sideVars>>
    \/ SpawnRestart /\ UNCHANGED <<physVars, gameVars, sideVars>>

\* ------------------------------------------------------------------ localStorage
\* Number.prototype.toString: the decimal digits of n >= 0
RECURSIVE toString(_)
toString(n) == IF n < 10 THEN <<n>> ELSE Append(toString(n \div 10), n % 10)

\* parseInt(s, 10) of a string of digits
RECURSIVE parseInt(_)
parseInt(s) ==
    IF Len(s) = 1 THEN s[1]
    ELSE 10 * parseInt(SubSeq(s, 1, Len(s) - 1)) + s[Len(s)]

\* useState initializer: saved ? parseInt(saved, 10) : 0
initialHighScore(saved) == IF saved = <<>> THEN 0 ELSE parseInt(saved)

\* the store is empty or holds a high score written by an earlier session
StoredScores == {99}

\* ------------------------------------------------------------------ Visualizer
NoEvent == [kind |-> "none", code |-> "", log |-> <<>>]

\* const dt = 1 / 60
FrameDt == TicksPerSecond \div 60

\* WORLD_SCROLL_SPEED * deltaTime between two frames: the clock did not advance
\* (deltaTime = 0) or the tab was in the background for 19/6 s (9.5 world units)
FrameAdvances == {0, (19 * XScale) \div 2}

\* the band loudness of a frame: silence or full scale
FrameLoudnesses == {0, LoudScale}

currentScore_Rounded(offset) == (offset * SCORE_COEFFICIENT + XScale \div 2) \div XScale

currentScore(offset) == (offset * SCORE_COEFFICIENT) \div XScale

GameInitWith(saved) ==
    /\ screen = "setup"
    /\ pendingScreen = "setup"
    /\ storage = saved
    /\ highScore = initialHighScore(saved)
    /\ pendingHighScore = initialHighScore(saved)
    /\ isNewHighScore = FALSE
    /\ score = 0
    /\ lastFrameTime = 0
    /\ isDownKeyHeld = FALSE
    /\ boat = "pending"
    /\ rafPending = TRUE
    /\ event = NoEvent

GameInit == \E saved \in {<<>>} \cup {toString(n) : n \in StoredScores} :
                GameInitWith(saved)

\* loadAllAssets().then: the boat model arrives
BoatLoaded ==
    /\ boat = "pending"
    /\ boat' = "loaded"
    /\ event' = NoEvent
    /\ UNCHANGED <<physVars, obsVars, screen, pendingScreen, highScore,
                   pendingHighScore, isNewHighScore, score, storage, lastFrameTime,
                   isDownKeyHeld, rafPending>>

\* loadAllAssets().catch: the error is logged and boatRef stays null
BoatFailed ==
    /\ boat = "pending"
    /\ boat' = "failed"
    /\ event' = NoEvent
    /\ UNCHANGED <<physVars, obsVars, screen, pendingScreen, highScore,
                   pendingHighScore, isNewHighScore, score, storage, lastFrameTime,
                   isDownKeyHeld, rafPending>>

\* handleStartRace, from the setup overlay or the game-over overlay
StartRace ==
    /\ screen \in {"setup", "gameOver"}
    /\ worldOffset' = 0
    /\ lastFrameTime' = 0
    /\ physics' = resetPhysicsState(physics)
    /\ isDownKeyHeld' = FALSE
    /\ mgr' = reset(mgr)
    /\ score' = 0
    /\ pendingScreen' = "countdown"
    /\ event' = [NoEvent EXCEPT !.kind = "startRace"]
    /\ UNCHANGED <<lastCall, sinceLanding, jumpTrack, afterLanding, spawnLog, removeLog, screen, highScore,
                   pendingHighScore, isNewHighScore, storage, boat, rafPending>>

\* handleCountdownComplete, called by the mounted CountdownOverlay
CountdownComplete ==
    /\ screen = "countdown"
    /\ pendingScreen' = "race"
    /\ event' = NoEvent
    /\ UNCHANGED <<physVars, obsVars, screen, highScore, pendingHighScore,
                   isNewHighScore, score, storage, lastFrameTime, isDownKeyHeld, boat,
                   rafPending>>

\* React renders the queued state; the effects that depend on screen or on
\* handleGameOver (highScore) are cleaned up and run again: the pending frame
\* is cancelled and a new one requested, the key handlers are replaced
Render ==
    /\ pendingScreen # screen \/ pendingHighScore # highScore
    /\ screen' = pendingScreen
    /\ highScore' = pendingHighScore
    /\ rafPending' = TRUE
    /\ event' = NoEvent
    /\ UNCHANGED <<physVars, obsVars, pendingScreen, pendingHighScore,
                   isNewHighScore, score, storage, lastFrameTime, isDownKeyHeld, boat>>

KeyDown_Direct ==
    \E code \in {"Space", "ArrowDown", "KeyA"}, repeat \in BOOLEAN :
        /\ event' = [NoEvent EXCEPT !.kind = "keydown", !.code = code]
        /\ IF screen # "race"
           THEN UNCHANGED <<physics, isDownKeyHeld>>
           ELSE IF code = "Space" /\ ~repeat
           THEN /\ physics' = [physics EXCEPT !.isJumping = TRUE,
                                              !.velocityY = JUMP_VELOCITY * VelScale]
                /\ UNCHANGED isDownKeyHeld
           ELSE IF code = "ArrowDown"
           THEN /\ physics' = [physics EXCEPT !.isDiving = TRUE]
                /\ isDownKeyHeld' = TRUE
           ELSE UNCHANGED <<physics, isDownKeyHeld>>
        /\ UNCHANGED <<lastCall, sinceLanding, jumpTrack, afterLanding, obsVars, screen,
                       pendingScreen, highScore, pendingHighScore, isNewHighScore,
                       score, storage, lastFrameTime, boat, rafPending>>

\* useKeyboardControls.handleKeyDown
KeyDown ==
    \E code \in {"Space", "ArrowDown", "KeyA"}, repeat \in BOOLEAN :
        /\ event' = [NoEvent EXCEPT !.kind = "keydown", !.code = code]
        /\ IF screen # "race"
           THEN UNCHANGED <<physics, isDownKeyHeld>>
           ELSE IF code = "Space" /\ ~repeat
           THEN physics' = triggerJump(physics).state /\ UNCHANGED isDownKeyHeld
           ELSE IF code = "ArrowDown"
           THEN physics' = triggerDive(physics).state /\ isDownKeyHeld' = TRUE
           ELSE UNCHANGED <<physics, isDownKeyHeld>>
        /\ UNCHANGED <<lastCall, sinceLanding, jumpTrack, afterLanding, obsVars, screen,
                       pendingScreen, highScore, pendingHighScore, isNewHighScore,
                       score, storage, lastFrameTime, boat, rafPending>>

\* useKeyboardControls.handleKeyUp
KeyUp ==
    \E code \in {"Space", "ArrowDown", "KeyA"} :
        /\ event' = NoEvent
        /\ isDownKeyHeld' = IF code = "ArrowDown" THEN FALSE ELSE isDownKeyHeld
        /\ UNCHANGED <<physVars, obsVars, screen, pendingScreen, highScore,
                       pendingHighScore, isNewHighScore, score, storage,
                       lastFrameTime, boat, rafPending>>

handleGameOver_Always(offset) ==
    [highScore |-> currentScore(offset), isNew |-> TRUE,
     storage |-> toString(currentScore(offset))]

\* handleGameOver: the queued high score, the flag and the store
handleGameOver(offset) ==
    IF currentScore(offset) > highScore
    THEN [highScore |-> currentScore(offset), isNew |-> TRUE,
          storage |-> toString(currentScore(offset))]
    ELSE [highScore |-> pendingHighScore, isNew |-> FALSE, storage |-> storage]

IdleFrame_AnyScreen ==
    /\ rafPending
    /\ screen # "race"
    /\ \E animDone \in BOOLEAN :
        /\ pendingScreen' = IF boat = "loaded" /\ animDone
                            THEN "gameOver" ELSE pendingScreen
        /\ event' = NoEvent
        /\ UNCHANGED <<physVars, obsVars, screen, highScore, pendingHighScore,
                       isNewHighScore, score, storage, lastFrameTime, isDownKeyHeld,
                       boat, rafPending>>

\* Visualizer.animate while the screen is not 'race'
IdleFrame ==
    /\ rafPending
    /\ screen # "race"
    /\ \E animDone \in BOOLEAN :
        /\ pendingScreen' = IF screen = "gameOverAnimation" /\ boat = "loaded" /\ animDone
                            THEN "gameOver" ELSE pendingScreen
        /\ event' = NoEvent
        /\ UNCHANGED <<physVars, obsVars, screen, highScore, pendingHighScore,
                       isNewHighScore, score, storage, lastFrameTime, isDownKeyHeld,
                       boat, rafPending>>

\* what a race frame reads: the wave height under the boat, whether the
\* analyser delivered data, and the loudness of the two bands
\* BOAT_BASE_Y + displacement.dy under the boat, and under an obstacle
FrameWaves == {BOAT_BASE_Y - WaveStep, BOAT_BASE_Y, BOAT_BASE_Y + WaveStep}

FrameInputs == [wave : FrameWaves, hasData : BOOLEAN,
                jumpLoudness : FrameLoudnesses, diveLoudness : FrameLoudnesses]

boatFrame_StaleAudio(in) ==
    IF boat # "loaded"
    THEN [state |-> physics, y |-> 0, steps |-> <<>>]
    ELSE LET p1 == checkAudioTriggers(physics, in.jumpLoudness, in.diveLoudness)
             isDiveHeld == in.diveLoudness > ACTION_THRESHOLD \/ isDownKeyHeld
             r == updatePhysics(p1, FrameDt, in.wave, isDiveHeld)
         IN  [state |-> r.state, y |-> r.y,
              steps |-> (IF in.hasData THEN <<"triggerEval">> ELSE <<>>)
                        \o updatePhysicsSteps]

\* animate 304-334, the `if (boat)` block of a race frame: the physics state
\* after it, the boat's Y and the steps that ran
boatFrame(in) ==
    IF boat # "loaded"
    THEN [state |-> physics, y |-> 0, steps |-> <<>>]
    ELSE LET p1 == IF in.hasData
                   THEN checkAudioTriggers(physics, in.jumpLoudness, in.diveLoudness)
                   ELSE physics
             isDiveHeld == (in.hasData /\ in.diveLoudness > ACTION_THRESHOLD)
                           \/ isDownKeyHeld
             r == updatePhysics(p1, FrameDt, in.wave, isDiveHeld)
         IN  [state |-> r.state, y |-> r.y,
              steps |-> (IF in.hasData THEN <<"triggerEval">> ELSE <<>>)
                        \o updatePhysicsSteps]

\* animate 337-348: the world offset of the frame and the manager after trySpawn
scrolled(advance, rGap, rType) ==
    LET offset == worldOffset + (IF lastFrameTime = 0 THEN 0 ELSE advance)
    IN  [offset |-> offset, mgr |-> trySpawn(mgr, offset, rGap, rType)]

\* animate 350-360: updateAll, the collision check and, without a collision,
\* removeOffScreen
raceLogic(b, w, obstacleDy) ==
    LET collided == boat = "loaded"
                    /\ checkBoatCollision(w.mgr, BOAT_X, b.y, w.offset, obstacleDy)
    IN  [physics |-> b.state, offset |-> w.offset, collided |-> collided,
         mgr |-> IF collided THEN w.mgr ELSE removeOffScreen(w.mgr, w.offset),
         steps |-> b.steps \o <<"spawn", "update">>
                   \o (IF boat = "loaded" THEN <<"collision">> ELSE <<>>)
                   \o (IF collided THEN <<"gameOver">> ELSE <<"cleanup">>)]

\* the outcomes of a race frame over what it reads
raceFrames ==
    {raceLogic(b, w, obstacleWave - BOAT_BASE_Y) :
        b \in {boatFrame(in) : in \in FrameInputs},
        w \in {scrolled(advance, rGap, rType) :
                  advance \in FrameAdvances, rGap \in Randoms, rType \in Randoms},
        obstacleWave \in FrameWaves}

RaceFrame_KeepsScheduling ==
    /\ rafPending
    /\ screen = "race"
    /\ \E f \in raceFrames :
        LET over == handleGameOver(f.offset)
        IN  /\ f.offset <= MaxGameOffset * XScale
            /\ physics' = f.physics
            /\ lastFrameTime' = 1
            /\ worldOffset' = f.offset
            /\ score' = currentScore(f.offset)
            /\ mgr' = f.mgr
            /\ pendingHighScore' = IF f.collided THEN over.highScore ELSE pendingHighScore
            /\ isNewHighScore' = IF f.collided THEN over.isNew ELSE isNewHighScore
            /\ storage' = IF f.collided THEN over.storage ELSE storage
            /\ pendingScreen' = IF f.collided THEN "gameOverAnimation" ELSE pendingScreen
            /\ rafPending' = TRUE
            /\ event' = [NoEvent EXCEPT !.kind = "frame", !.log = f.steps]
    /\ UNCHANGED <<lastCall, sinceLanding, jumpTrack, afterLanding, spawnLog, removeLog,
                   screen, highScore, isDownKeyHeld, boat>>

\* Visualizer.animate while the screen is 'race'
RaceFrame ==
    /\ rafPending
    /\ screen = "race"
    /\ \E f \in raceFrames :
        LET over == handleGameOver(f.offset)
        IN  /\ f.offset <= MaxGameOffset * XScale
            /\ physics' = f.physics
            /\ lastFrameTime' = 1
            /\ worldOffset' = f.offset
            /\ score' = currentScore(f.offset)
            /\ mgr' = f.mgr
            /\ pendingHighScore' = IF f.collided THEN over.highScore ELSE pendingHighScore
            /\ isNewHighScore' = IF f.collided THEN over.isNew ELSE isNewHighScore
            /\ storage' = IF f.collided THEN over.storage ELSE storage
            /\ pendingScreen' = IF f.collided THEN "gameOverAnimation" ELSE pendingScreen
            /\ rafPending' = ~f.collided
            /\ event' = [NoEvent EXCEPT !.kind = "frame", !.log = f.steps]
    /\ UNCHANGED <<lastCall, sinceLanding, jumpTrack, afterLanding, spawnLog, removeLog,
                   screen, highScore, isDownKeyHeld, boat>>

Next ==
    \/ BoatLoaded /\ UNCHANGED sideVars
    \/ BoatFailed /\ UNCHANGED sideVars
    \/ StartRace /\ UNCHANGED sideVars
    \/ CountdownComplete /\ UNCHANGED sideVars
    \/ Render /\ UNCHANGED sideVars
    \/ KeyDown /\ UNCHANGED sideVars
    \/ KeyUp /\ UNCHANGED sideVars
    \/ IdleFrame /\ UNCHANGED sideVars
    \/ RaceFrame /\ UNCHANGED sideVars

\* ------------------------------------------------------------------ two-lane race
\* the canvas view (part_005) keeps the two positions as fractions of the
\* track; the 3D view (Visualizer.tsx) keeps them as the boats' world X
PosScale == 100000

BASE_SPEED_DIVISOR == 100
WHISTLE_BOOST == 30
SINGING_BOOST_X10 == 22

\* speed * BASE_SPEED_MULTIPLIER * boost
laneStep(speed, boost_x10) ==
    speed * boost_x10 * (PosScale \div (LoudScale * 10 * BASE_SPEED_DIVISOR))

FINISH == PosScale
RACE_START_X == (0 - 4) * PosScale
BUOY_X == (525 * PosScale) \div 100
BOAT_FRONT_OFFSET == PosScale

\* the 3D race is followed until a front is MaxOvershoot units past the buoy
MaxOvershoot == 1

\* getFrequencyAverage of a lane's band: silent or saturated
LaneSpeeds == {0, LoudScale}

NoLaneFrame == [race |-> FALSE, red |-> 0, blue |-> 0]

LaneInitWith(view) ==
    lanes = [view |-> view, screen |-> "setup", pendingScreen |-> "setup",
             winner |-> "null",
             red |-> IF view = "canvas" THEN 0 ELSE RACE_START_X,
             blue |-> IF view = "canvas" THEN 0 ELSE RACE_START_X,
             frame |-> NoLaneFrame]

\* where a lane's boat is measured against the finish
front(view, pos) == IF view = "canvas" THEN pos ELSE pos + BOAT_FRONT_OFFSET

finishLine(view) == IF view = "canvas" THEN FINISH ELSE BUOY_X

pickWinner_Swapped(redFront, blueFront) == IF redFront > blueFront THEN "blue" ELSE "red"

\* the winner check of both views
pickWinner(redFront, blueFront) == IF redFront > blueFront THEN "red" ELSE "blue"

\* the Start Race button (part_005 384-389), handleStartRace (Visualizer.tsx 92-98)
LaneStartRace ==
    /\ lanes.screen = "setup"
    /\ lanes' = [lanes EXCEPT
                   !.red = IF lanes.view = "canvas" THEN 0 ELSE RACE_START_X,
                   !.blue = IF lanes.view = "canvas" THEN 0 ELSE RACE_START_X,
                   !.pendingScreen = "race",
                   !.winner = IF lanes.view = "canvas" THEN @ ELSE "null",
                   !.frame = NoLaneFrame]

\* the Race Again button (part_005 417-423), handleRaceAgain (Visualizer.tsx 100-103)
LaneRaceAgain ==
    /\ lanes.screen = "winner"
    /\ lanes' = [lanes EXCEPT
                   !.red = IF lanes.view = "canvas" THEN 0 ELSE @,
                   !.blue = IF lanes.view = "canvas" THEN 0 ELSE @,
                   !.pendingScreen = "setup",
                   !.winner = "null",
                   !.frame = NoLaneFrame]

\* React renders the queued screen; the animation effect runs again
LaneRender ==
    /\ lanes.pendingScreen # lanes.screen
    /\ lanes' = [lanes EXCEPT !.screen = lanes.pendingScreen, !.frame = NoLaneFrame]

\* part_005 animate 117-148
CanvasAnimate ==
    /\ lanes.view = "canvas"
    /\ \E hasData \in BOOLEAN, boat1Speed \in LaneSpeeds, boat2Speed \in LaneSpeeds :
        IF lanes.screen = "race" /\ hasData
        THEN LET raw1 == lanes.red + laneStep(boat1Speed, WHISTLE_BOOST * 10)
                 raw2 == lanes.blue + laneStep(boat2Speed, SINGING_BOOST_X10)
                 pos1 == Min(raw1, FINISH)
                 pos2 == Min(raw2, FINISH)
                 finished == pos1 >= FINISH \/ pos2 >= FINISH
             IN  lanes' = [lanes EXCEPT
                    !.red = pos1,
                    !.blue = pos2,
                    !.winner = IF finished THEN pickWinner(pos1, pos2) ELSE @,
                    !.pendingScreen = IF finished THEN "winner" ELSE @,
                    !.frame = [race |-> TRUE, red |-> raw1, blue |-> raw2]]
        ELSE lanes' = [lanes EXCEPT !.frame = NoLaneFrame]

\* Visualizer.tsx animate 491-581, with both boat models loaded
SceneAnimate ==
    /\ lanes.view = "scene"
    /\ \E hasData \in BOOLEAN, redSpeed \in LaneSpeeds, blueSpeed \in LaneSpeeds,
          animationDone \in BOOLEAN :
        IF lanes.screen = "race" /\ hasData
        THEN LET x1 == lanes.red + laneStep(redSpeed, WHISTLE_BOOST * 10)
                 x2 == lanes.blue + laneStep(blueSpeed, SINGING_BOOST_X10)
                 redFront == x1 + BOAT_FRONT_OFFSET
                 blueFront == x2 + BOAT_FRONT_OFFSET
                 finished == redFront >= BUOY_X \/ blueFront >= BUOY_X
             IN  /\ redFront <= BUOY_X + MaxOvershoot * PosScale
                 /\ blueFront <= BUOY_X + MaxOvershoot * PosScale
                 /\ lanes' = [lanes EXCEPT
                        !.red = x1,
                        !.blue = x2,
                        !.winner = IF finished THEN pickWinner(redFront, blueFront)
                                   ELSE @,
                        !.pendingScreen = IF finished THEN "win_animation" ELSE @,
                        !.frame = [race |-> TRUE, red |-> x1, blue |-> x2]]
        ELSE lanes' = [lanes EXCEPT
                !.pendingScreen = IF /\ lanes.screen = "win_animation"
                                     /\ lanes.winner # "null"
                                     /\ animationDone
                                  THEN "winner" ELSE @,
                !.red = IF lanes.screen = "setup" THEN RACE_START_X ELSE @,
                !.blue = IF lanes.screen = "setup" THEN RACE_START_X ELSE @,
                !.frame = NoLaneFrame]

LaneNext ==
    \/ LaneStartRace /\ UNCHANGED <<physVars, obsVars, gameVars, audio, atDelay, slider, mic>>
    \/ LaneRaceAgain /\ UNCHANGED <<physVars, obsVars, gameVars, audio, atDelay, slider, mic>>
    \/ LaneRender /\ UNCHANGED <<physVars, obsVars, gameVars, audio, atDelay, slider, mic>>
    \/ CanvasAnimate /\ UNCHANGED <<physVars, obsVars, gameVars, audio, atDelay, slider, mic>>
    \/ SceneAnimate /\ UNCHANGED <<physVars, obsVars, gameVars, audio, atDelay, slider, mic>>

\* ------------------------------------------------------------------ utils/audio.ts
NOISE_THRESHOLD == 120
MAX_AUDIO_VALUE == 255

\* the frequency data has up to MaxBins bins
MaxBins == 3

\* byte values around the noise floor and at the ends of the range
ByteValues == {0, NOISE_THRESHOLD, NOISE_THRESHOLD + 1, MAX_AUDIO_VALUE}

ByteArrays == UNION {[1..n -> ByteValues] : n \in 0..MaxBins}

\* i is a bin of the array, bins counted from 0 (data[i] is undefined otherwise)
inArray(data, i) == i >= 0 /\ i < Len(data)

rectify_Raw(data, i, noiseThreshold) == IF inArray(data, i) THEN data[i + 1] ELSE 0

\* data[i] > noiseThreshold ? data[i] - noiseThreshold : 0 (undefined > n is false)
rectify(data, i, noiseThreshold) ==
    IF inArray(data, i) /\ data[i + 1] > noiseThreshold
    THEN data[i + 1] - noiseThreshold
    ELSE 0

\* the loop for (let i = startBin; i < endBin; i++) sum += value
RECURSIVE filteredSum(_, _, _, _)
filteredSum(data, i, endBin, noiseThreshold) ==
    IF i < endBin
    THEN rectify(data, i, noiseThreshold)
         + filteredSum(data, i + 1, endBin, noiseThreshold)
    ELSE 0

\* a quotient num / den, den > 0
Zero == [num |-> 0, den |-> 1]

getFrequencyAverage_WholeArray(data, startBin, endBin) ==
    IF startBin >= endBin THEN Zero
    ELSE [num |-> filteredSum(data, startBin, endBin, NOISE_THRESHOLD),
          den |-> Max(1, Len(data)) * (MAX_AUDIO_VALUE - NOISE_THRESHOLD)]

\* sum / (endBin - startBin) / (MAX_AUDIO_VALUE - NOISE_THRESHOLD)
getFrequencyAverage(data, startBin, endBin) ==
    IF startBin >= endBin THEN Zero
    ELSE [num |-> filteredSum(data, startBin, endBin, NOISE_THRESHOLD),
          den |-> (endBin - startBin) * (MAX_AUDIO_VALUE - NOISE_THRESHOLD)]

\* the normalized field of getFrequencyAverageWithDetails
getFrequencyAverageWithDetails(data, startBin, endBin, noiseThreshold) ==
    IF startBin >= endBin THEN Zero
    ELSE [num |-> filteredSum(data, startBin, endBin, noiseThreshold),
          den |-> (endBin - startBin) * (MAX_AUDIO_VALUE - noiseThreshold)]

AudioInitWith(data, startBin, endBin) ==
    audio = [data |-> data, startBin |-> startBin, endBin |-> endBin,
             called |-> FALSE, result |-> Zero, normalized |-> Zero]

\* getFrequencyAverage and the debug overlay's variant on the same arguments
CallGetFrequencyAverage ==
    /\ ~audio.called
    /\ audio' = [audio EXCEPT
                   !.called = TRUE,
                   !.result = getFrequencyAverage(audio.data, audio.startBin,
                                                  audio.endBin),
                   !.normalized = getFrequencyAverageWithDetails(
                                      audio.data, audio.startBin, audio.endBin,
                                      NOISE_THRESHOLD)]

\* the analyser delivers the next frame of data; the band stays
NextFrequencyData ==
    /\ audio.called
    /\ \E data \in ByteArrays :
        audio' = [audio EXCEPT !.data = data, !.called = FALSE, !.result = Zero,
                               !.normalized = Zero]

AudioNext ==
    \/ CallGetFrequencyAverage /\ UNCHANGED <<physVars, obsVars, gameVars, lanes, atDelay, slider, mic>>
    \/ NextFrequencyData /\ UNCHANGED <<physVars, obsVars, gameVars, lanes, atDelay, slider, mic>>

\* ------------------------------------------------------------------ useAudio
\* start() is called up to MaxStarts times; the k-th call creates AudioContext
\* k and, if getUserMedia resolves, is handed MediaStream k
MaxStarts == 3

\* 0 stands for null.  awaiting: the start() calls suspended at the await;
\* live: the streams acquired whose tracks have not been stopped; open: the
\* AudioContexts not closed; started: the number of start() calls so far
MicInit ==
    mic = [audioContextRef |-> 0, streamRef |-> 0, sourceRef |-> 0,
           analyserRef |-> 0, animationFrameRef |-> FALSE, mounted |-> TRUE,
           isActive |-> FALSE, error |-> FALSE, awaiting |-> {}, live |-> {},
           open |-> {}, started |-> 0, op |-> "none"]

\* stop 49-75
stop(m) ==
    [m EXCEPT !.animationFrameRef = FALSE,
              !.live = IF m.streamRef # 0 THEN @ \ {m.streamRef} ELSE @,
              !.streamRef = 0,
              !.sourceRef = 0,
              !.open = IF m.audioContextRef # 0 THEN @ \ {m.audioContextRef} ELSE @,
              !.audioContextRef = 0,
              !.analyserRef = 0,
              !.isActive = IF m.mounted THEN FALSE ELSE @]

\* start 77-102: up to the await
MicStart ==
    /\ mic.started < MaxStarts
    /\ LET k == mic.started + 1
           m == stop(mic)
       IN  mic' = [m EXCEPT !.error = IF m.mounted THEN FALSE ELSE @,
                            !.audioContextRef = k,
                            !.open = @ \cup {k},
                            !.analyserRef = k,
                            !.awaiting = @ \cup {k},
                            !.started = k,
                            !.op = "start"]

\* start 96-125: getUserMedia resolves and the call resumes
MicResolve ==
    \E k \in mic.awaiting :
        LET m == [mic EXCEPT !.awaiting = @ \ {k}, !.streamRef = k,
                             !.live = @ \cup {k}, !.op = "resolve"]
        IN  IF ~m.mounted \/ m.audioContextRef = 0
            THEN mic' = [m EXCEPT !.live = @ \ {k}]
            ELSE mic' = [m EXCEPT !.sourceRef = k,
                                  !.isActive = TRUE,
                                  !.animationFrameRef = m.analyserRef # 0]

\* start 126-141: getUserMedia rejects
MicReject ==
    \E k \in mic.awaiting :
        LET m == [mic EXCEPT !.awaiting = @ \ {k}, !.op = "reject"]
        IN  IF ~m.mounted THEN mic' = m
            ELSE mic' = [m EXCEPT !.error = TRUE, !.isActive = FALSE]

MicStop == mic' = [stop(mic) EXCEPT !.op = "stop"]

\* the effect of 145-151: its cleanup, and its body when the component is
\* mounted again
MicUnmount ==
    /\ mic.mounted
    /\ mic' = [stop([mic EXCEPT !.mounted = FALSE]) EXCEPT !.op = "stop"]

MicMount ==
    /\ ~mic.mounted
    /\ mic' = [mic EXCEPT !.mounted = TRUE, !.op = "mount"]

MicNext ==
    \/ MicStart /\ UNCHANGED <<physVars, obsVars, gameVars, lanes, audio, atDelay, slider>>
    \/ MicResolve /\ UNCHANGED <<physVars, obsVars, gameVars, lanes, audio, atDelay, slider>>
    \/ MicReject /\ UNCHANGED <<physVars, obsVars, gameVars, lanes, audio, atDelay, slider>>
    \/ MicStop /\ UNCHANGED <<physVars, obsVars, gameVars, lanes, audio, atDelay, slider>>
    \/ MicUnmount /\ UNCHANGED <<physVars, obsVars, gameVars, lanes, audio, atDelay, slider>>
    \/ MicMount /\ UNCHANGED <<physVars, obsVars, gameVars, lanes, audio, atDelay, slider>>

\* ------------------------------------------------------------------ FrequencySlider
MAX_SLIDER_BIN == 200
DEFAULT_RED_RANGE == [start |-> 56, end |-> 200]
DEFAULT_BLUE_RANGE == [start |-> 0, end |-> 56]

\* the pointer puts a thumb on one of SliderSteps + 1 evenly spaced bins or on
\* the bin the default ranges share
SliderSteps == 4
SliderStops == {(k * MAX_SLIDER_BIN) \div SliderSteps : k \in 0..SliderSteps}
               \cup {DEFAULT_RED_RANGE.start}

\* handleValueChange([val1, val2]): the range handed to onRangeChange and the
\* dragAnchorRef it leaves
handleValueChange(draggingThumb, anchor, val1, val2) ==
    IF draggingThumb = "start" THEN
        LET draggedPos == IF val2 = anchor THEN val1
                          ELSE IF val1 >= anchor THEN val2
                          ELSE val1
            newEnd == Max(draggedPos, anchor)
        IN  [range |-> [start |-> draggedPos, end |-> newEnd], dragAnchor |-> newEnd]
    ELSE IF draggingThumb = "end" THEN
        LET draggedPos == IF val1 = anchor THEN val2
                          ELSE IF val2 <= anchor THEN val1
                          ELSE val2
            newStart == Min(draggedPos, anchor)
        IN  [range |-> [start |-> newStart, end |-> draggedPos],
             dragAnchor |-> newStart]
    ELSE [range |-> [start |-> val1, end |-> val2], dragAnchor |-> anchor]

\* Slider.Root (Radix, min = 0, max = MAX_SLIDER_BIN, step = 1, no minimum
\* distance between the thumbs): the value of the thumb at atIndex becomes v
\* and the pair is sorted
nextSortedValues(values, v, atIndex) ==
    LET other == values[3 - atIndex]
    IN  <<Min(v, other), Max(v, other)>>

\* the thumb nearest to v, the first of the two on a tie
closestValueIndex(values, v) ==
    LET d(i) == IF values[i] >= v THEN values[i] - v ELSE v - values[i]
    IN  IF d(1) <= d(2) THEN 1 ELSE 2

\* down: a pointer is captured; index: the thumb the Slider.Root changes;
\* before: the values when the pointer went down
SliderInitWith(range) ==
    slider = [range |-> range, draggingThumb |-> "null", dragAnchor |-> 0,
              down |-> FALSE, index |-> 1, before |-> <<range.start, range.end>>]

\* the Slider.Root moves the thumb at atIndex to v: onValueChange if the pair
\* changed
updateValues(v, atIndex) ==
    LET values == <<slider.range.start, slider.range.end>>
        next == nextSortedValues(values, v, atIndex)
        r == handleValueChange(slider.draggingThumb, slider.dragAnchor,
                               next[1], next[2])
    IN  IF next = values THEN [slider EXCEPT !.index = atIndex]
        ELSE [slider EXCEPT !.range = r.range, !.dragAnchor = r.dragAnchor,
                            !.index = IF next[1] = v THEN 1 ELSE 2]

\* Slider.Thumb onPointerDown (98-101, 112-115); the thumb takes the focus
ThumbPointerDown ==
    \E thumb \in {"start", "end"} :
        /\ ~slider.down
        /\ slider' = [slider EXCEPT
               !.draggingThumb = thumb,
               !.dragAnchor = IF thumb = "start" THEN slider.range.end
                              ELSE slider.range.start,
               !.down = TRUE,
               !.index = IF thumb = "start" THEN 1 ELSE 2,
               !.before = <<slider.range.start, slider.range.end>>]

\* a pointer down on the track: the nearest thumb jumps to it
TrackPointerDown ==
    \E v \in SliderStops :
        /\ ~slider.down
        /\ slider' = [updateValues(v, closestValueIndex(
                                        <<slider.range.start, slider.range.end>>, v))
                      EXCEPT !.down = TRUE,
                             !.before = <<slider.range.start, slider.range.end>>]

\* the captured pointer moves
PointerMove ==
    \E v \in SliderStops :
        /\ slider.down
        /\ slider' = updateValues(v, slider.index)
        /\ slider' # slider

\* the pointer is released: onValueCommit (73) if the thumb has moved
PointerUp ==
    /\ slider.down
    /\ slider' = [slider EXCEPT
           !.down = FALSE,
           !.draggingThumb =
               IF <<slider.range.start, slider.range.end>>[slider.index]
                      # slider.before[slider.index]
               THEN "null" ELSE @]

SliderNext ==
    \/ ThumbPointerDown /\ UNCHANGED <<physVars, obsVars, gameVars, lanes, audio, atDelay, mic>>
    \/ TrackPointerDown /\ UNCHANGED <<physVars, obsVars, gameVars, lanes, audio, atDelay, mic>>
    \/ PointerMove /\ UNCHANGED <<physVars, obsVars, gameVars, lanes, audio, atDelay, mic>>
    \/ PointerUp /\ UNCHANGED <<physVars, obsVars, gameVars, lanes, audio, atDelay, mic>>

\* ------------------------------------------------------------------ trySpawn in doubles
\* ObstacleManager.trySpawn as the engine computes it, in IEEE 754 doubles, for
\* a worldOffset within MaxUlps doubles of OBSTACLE_SPAWN_DELAY *
\* WORLD_SCROLL_SPEED = 9.  Numbers are counted in units of 2^-51, the spacing
\* of the doubles in [2, 4): worldOffset as its distance from 9, the quotient
\* worldOffset / WORLD_SCROLL_SPEED as its distance from OBSTACLE_SPAWN_DELAY
\* = 3, and worldOffset + OBSTACLE_SPAWN_DISTANCE as its distance from 17.
\* The doubles in [8, 16) are ULP_9 units apart and those in [16, 32) ULP_17.
ULP_3 == 1
ULP_9 == 4
ULP_17 == 8
MaxUlps == 60

\* the integer nearest to num / den, a tie going to the even one (the IEEE 754
\* default rounding of a quotient or a sum to the doubles of its binade)
roundTiesToEven(num, den) ==
    LET q == num \div den
        r == num % den
    IN  IF 2 * r < den THEN q
        ELSE IF 2 * r > den THEN q + 1
        ELSE IF q % 2 = 0 THEN q ELSE q + 1

\* trySpawn 48: worldOffset / WORLD_SCROLL_SPEED for worldOffset = 9 + k doubles
timeSinceStart(k) ==
    ULP_3 * roundTiesToEven(k * ULP_9, WORLD_SCROLL_SPEED * ULP_3)

\* trySpawn 52: worldOffset + OBSTACLE_SPAWN_DISTANCE
spawnThreshold(k) == ULP_17 * roundTiesToEven(k * ULP_9, ULP_17)

inSpawnDelay_Strict(k) == timeSinceStart(k) < 0

\* trySpawn 50: timeSinceStart <= OBSTACLE_SPAWN_DELAY
inSpawnDelay(k) == timeSinceStart(k) <= 0

\* the manager: its obstacles (their worldX) and lastObstacleWorldX (0 until
\* the first spawn); and the last call
NoDelayCall == [obstacles |-> <<>>, spawned |-> FALSE, lastObstacleWorldX |-> 0,
                op |-> "none", k |-> 0]

\* trySpawn 47-57, 79-82.  After a spawn lastObstacleWorldX is about 17 and not
\* 0, and a spawnThreshold within MaxUlps doubles of 17 is below
\* lastObstacleWorldX + gap for every gap >= OBSTACLE_MIN_GAP: the call returns
trySpawnAtDelay(m, k) ==
    IF inSpawnDelay(k) THEN m
    ELSE IF m.spawned THEN m
    ELSE [m EXCEPT !.obstacles = Append(@, spawnThreshold(k)),
                   !.spawned = TRUE,
                   !.lastObstacleWorldX = spawnThreshold(k)]

DelayInit == atDelay = NoDelayCall

DelayTrySpawn ==
    \E k \in (0 - MaxUlps)..MaxUlps :
        atDelay' = [trySpawnAtDelay(atDelay, k) EXCEPT !.op = "trySpawn", !.k = k]

\* reset 37-45
DelayReset ==
    /\ atDelay.op # "reset"
    /\ atDelay' = [NoDelayCall EXCEPT !.op = "reset"]

DelayNext ==
    \/ DelayTrySpawn /\ UNCHANGED <<physVars, obsVars, gameVars, lanes, audio, slider, mic>>
    \/ DelayReset /\ UNCHANGED <<physVars, obsVars, gameVars, lanes, audio, slider, mic>>

InitDelay ==
    /\ PhysInit /\ ObsInit /\ GameInitWith(<<>>) /\ LaneInitWith("canvas")
    /\ AudioInitWith(<<>>, 0, 0) /\ DelayInit /\ SliderInitWith(DEFAULT_RED_RANGE) /\ MicInit

SpecDelay == InitDelay /\ [][DelayNext]_vars

InitSlider ==
    /\ PhysInit /\ ObsInit /\ GameInitWith(<<>>) /\ LaneInitWith("canvas")
    /\ AudioInitWith(<<>>, 0, 0) /\ DelayInit
    /\ \E range \in {DEFAULT_RED_RANGE, DEFAULT_BLUE_RANGE} : SliderInitWith(range)
    /\ MicInit

SpecSlider == InitSlider /\ [][SliderNext]_vars

InitAudio ==
    /\ PhysInit /\ ObsInit /\ GameInitWith(<<>>) /\ LaneInitWith("canvas")
    /\ DelayInit /\ SliderInitWith(DEFAULT_RED_RANGE) /\ MicInit
    /\ \E data \in ByteArrays, startBin \in 0..MaxBins, endBin \in 0..MaxBins :
        AudioInitWith(data, startBin, endBin)

SpecAudio == InitAudio /\ [][AudioNext]_vars

InitLanes == /\ PhysInit /\ ObsInit /\ GameInitWith(<<>>) /\ AudioInitWith(<<>>, 0, 0)
             /\ DelayInit /\ SliderInitWith(DEFAULT_RED_RANGE) /\ MicInit
             /\ \E view \in {"canvas", "scene"} : LaneInitWith(view)

SpecLanes == InitLanes /\ [][LaneNext]_vars

Init == /\ PhysInit /\ ObsInit /\ GameInit /\ LaneInitWith("canvas")
        /\ AudioInitWith(<<>>, 0, 0) /\ DelayInit /\ SliderInitWith(DEFAULT_RED_RANGE) /\ MicInit

\* the modules on their own: the game is not started and the store is empty
InitModules == /\ PhysInit /\ ObsInit /\ GameInitWith(<<>>) /\ LaneInitWith("canvas")
               /\ AudioInitWith(<<>>, 0, 0) /\ DelayInit /\ SliderInitWith(DEFAULT_RED_RANGE) /\ MicInit

SpecPhysics == InitModules /\ [][PhysNext /\ UNCHANGED <<obsVars, gameVars, sideVars>>]_vars

\* updatePhysics keeps being called
SpecRepeat ==
    /\ InitModules
    /\ [][RepeatNext /\ UNCHANGED <<obsVars, gameVars, sideVars>>]_vars
    /\ WF_vars((RepeatUpdate \/ RepeatUpdateTiny)
               /\ UNCHANGED <<obsVars, gameVars, sideVars>>)

SpecMic == InitModules /\ [][MicNext]_vars

SpecSpawn == InitModules /\ [][SpawnNext]_vars

SpecObstacles == InitModules /\ [][ObstaclesNext]_vars

Spec == Init /\ [][Next]_vars

\* ------------------------------------------------------------------ claims
Idle(state) == ~state.isJumping /\ ~state.isDiving

\* C1: after any sequence of triggerJump, triggerDive, checkAudioTriggers and
\* updatePhysics calls from createPhysicsState(), isJumping and isDiving are
\* never both true.
C1_MutualExclusion == ~(physics.isJumping /\ physics.isDiving)

\* a dive was asked for during a jump and refused
C1_Witness ==
    /\ lastCall.op = "triggerDive"
    /\ ~lastCall.ret
    /\ physics.isJumping

\* C2: after a landing, a triggerJump call made before ACTION_COOLDOWN seconds
\* of updatePhysics calls have elapsed returns false and changes no field of
\* the PhysicsState.
C2_CooldownEnforced ==
    [][(/\ lastCall'.op = "triggerJump"
        /\ sinceLanding >= 0
        /\ sinceLanding < ACTION_COOLDOWN)
       => (~lastCall'.ret /\ physics' = physics)]_vars

\* a jump refused on an idle boat, part of the cooldown already elapsed
C2_Witness ==
    /\ lastCall.op = "triggerJump"
    /\ ~lastCall.ret
    /\ Idle(physics)
    /\ sinceLanding > 0
    /\ sinceLanding < ACTION_COOLDOWN

\* the ballistic flight time 2 * V0 / g, in ticks
BallisticTime == (2 * JUMP_VELOCITY * TicksPerSecond) \div GRAVITY

\* C3: a jump started with JUMP_VELOCITY and updated with a constant dt and a
\* constant waterLevel lands after n updates with n * dt within one dt of
\* 2 * V0 / g.
C3_BallisticLanding ==
    jumpTrack.done =>
        /\ jumpTrack.n * jumpTrack.dt >= BallisticTime - jumpTrack.dt
        /\ jumpTrack.n * jumpTrack.dt <= BallisticTime + jumpTrack.dt

\* C6: checkAudioTriggers on an idle state with no cooldown and both
\* loudnesses above ACTION_THRESHOLD starts the jump and not the dive.
C6_JumpWinsTie ==
    [][(/\ lastCall'.op = "checkAudioTriggers"
        /\ Idle(physics)
        /\ physics.actionCooldown = 0
        /\ lastCall'.jl > ACTION_THRESHOLD
        /\ lastCall'.dl > ACTION_THRESHOLD)
       => (/\ physics'.isJumping
           /\ physics'.velocityY = JUMP_VELOCITY * VelScale
           /\ ~physics'.isDiving)]_vars

\* both bands were loud and the call started a jump
C6_Witness ==
    /\ lastCall.op = "checkAudioTriggers"
    /\ lastCall.jl > ACTION_THRESHOLD
    /\ lastCall.dl > ACTION_THRESHOLD
    /\ lastCall.fired = "jump"
    /\ ~physics.isDiving

\* C7: checkAudioTriggers starts the dive whenever the state is idle, the dive
\* band is above ACTION_THRESHOLD and the jump does not fire, whatever the
\* cooldown; it never sets isDiving on a state that is not idle or with a dive
\* band at or below the threshold.
C7_DiveNotGatedByCooldown ==
    [][lastCall'.op = "checkAudioTriggers" =>
        LET jumpFires == /\ Idle(physics)
                         /\ lastCall'.jl > ACTION_THRESHOLD
                         /\ physics.actionCooldown = 0
        IN  /\ (Idle(physics) /\ lastCall'.dl > ACTION_THRESHOLD /\ ~jumpFires)
                => physics'.isDiving
            /\ (~Idle(physics) \/ lastCall'.dl <= ACTION_THRESHOLD)
                => physics'.isDiving = physics.isDiving]_vars

\* the call started a dive while the cooldown was running
C7_Witness ==
    /\ lastCall.op = "checkAudioTriggers"
    /\ lastCall.fired = "dive"
    /\ physics.isDiving
    /\ physics.actionCooldown > 0

\* C4: with MAX_OBSTACLE_DUPLICATION = 2, no three obstacles spawned one after
\* the other in a race have the same type, also once the history evicts.
C4_NoTripleRun ==
    Len(spawnLog.last) = MAX_OBSTACLE_DUPLICATION + 1 =>
        \E i \in 1..Len(spawnLog.last) : spawnLog.last[i] # spawnLog.last[1]

\* a spawn chosen from a history that had already evicted, the last two of one type
C4_Witness ==
    /\ spawnLog.count > HISTORY_LIMIT + 1
    /\ Len(mgr.obstacleHistory) = HISTORY_LIMIT
    /\ spawnLog.last[2] = spawnLog.last[3]

\* the obstacles of a list whose screen X at the given offset is at least
\* OFFSCREEN_X, in the order of the list
RECURSIVE OnScreen(_, _)
OnScreen(list, offset) ==
    IF list = <<>> THEN <<>>
    ELSE IF Head(list).worldX - offset >= OFFSCREEN_X * XScale
         THEN <<Head(list)>> \o OnScreen(Tail(list), offset)
         ELSE OnScreen(Tail(list), offset)

\* C5: after removeOffScreen(worldOffset) the live obstacles are exactly those
\* that had worldX - worldOffset >= -5 before the call, in the same order; when
\* every obstacle had worldX - worldOffset < -5 the collection is empty.
C5_RemoveOffScreen ==
    removeLog.called =>
        /\ mgr.obstacles = OnScreen(removeLog.before, removeLog.offset)
        /\ (\A i \in 1..Len(removeLog.before) :
                removeLog.before[i].worldX - removeLog.offset < OFFSCREEN_X * XScale)
            => mgr.obstacles = <<>>

\* a call that removed an obstacle and kept another
C5_Witness ==
    /\ removeLog.called
    /\ Len(mgr.obstacles) > 0
    /\ Len(mgr.obstacles) < Len(removeLog.before)

\* a call that emptied a collection of several obstacles
C5_WitnessEmptied ==
    /\ removeLog.called
    /\ Len(removeLog.before) > 1
    /\ mgr.obstacles = <<>>

\* ------------------------------------------------------------------ the frame
ClaimedOrder == <<"cooldownDecay", "triggerEval", "integrate", "spawn", "update",
                  "collision", "cleanup">>

Position(step) == CHOOSE i \in DOMAIN ClaimedOrder : ClaimedOrder[i] = step

Claimed(step) == \E i \in DOMAIN ClaimedOrder : ClaimedOrder[i] = step

\* C8: the steps a race frame runs follow one another in the order cooldown
\* decay, trigger evaluation, integration, spawn, update, collision check,
\* cleanup
C8_FrameOrder ==
    event.kind = "frame" =>
        \A i, j \in DOMAIN event.log :
            (i < j /\ Claimed(event.log[i]) /\ Claimed(event.log[j]))
                => Position(event.log[i]) < Position(event.log[j])

\* ------------------------------------------------------------------ the keyboard
JumpDiveFields(state) == <<state.isJumping, state.isDiving, state.velocityY>>

\* C9: a key-down changes the physics state only while the screen is 'race'
\* and only to what triggerJump (Space) or triggerDive (ArrowDown) returns; a
\* Space key-down while jumping, diving or cooling down and an ArrowDown
\* key-down while jumping or diving leave isJumping, isDiving and velocityY
\* as they were
C9_KeyboardRouting ==
    [][event'.kind = "keydown" =>
        /\ physics' # physics =>
            /\ screen = "race"
            /\ event'.code \in {"Space", "ArrowDown"}
            /\ event'.code = "Space" => physics' = triggerJump(physics).state
            /\ event'.code = "ArrowDown" => physics' = triggerDive(physics).state
        /\ (/\ event'.code = "Space"
            /\ (physics.isJumping \/ physics.isDiving \/ physics.actionCooldown > 0))
                => JumpDiveFields(physics') = JumpDiveFields(physics)
        /\ (event'.code = "ArrowDown" /\ (physics.isJumping \/ physics.isDiving))
                => JumpDiveFields(physics') = JumpDiveFields(physics)]_vars

\* Space was pressed during a race while the boat cools down after a landing
C9_Witness ==
    /\ event.kind = "keydown"
    /\ event.code = "Space"
    /\ screen = "race"
    /\ physics.actionCooldown > 0
    /\ ~physics.isJumping

\* ------------------------------------------------------------------ the high score
GameOverStep == event'.kind = "frame" /\ event'.log[Len(event'.log)] = "gameOver"

\* C10: the high score and the store change only in a game-over whose final
\* score floor(worldOffset * SCORE_COEFFICIENT) exceeds the high score; the
\* high score then is that score and the store holds its digits; the high
\* score never decreases and after a game-over is the maximum of its previous
\* value and the final score
C10_HighScore ==
    [][LET final == (worldOffset' * SCORE_COEFFICIENT) \div XScale
       IN  /\ (pendingHighScore' # pendingHighScore \/ storage' # storage)
                => (GameOverStep /\ final > highScore)
           /\ (GameOverStep /\ final > highScore)
                => (/\ pendingHighScore' = final
                    /\ storage' = toString(final)
                    /\ parseInt(storage') = final)
           /\ GameOverStep => pendingHighScore' = Max(highScore, final)
           /\ pendingHighScore' >= pendingHighScore
           /\ highScore' >= highScore
           /\ highScore' \in {highScore, pendingHighScore}]_vars

\* a race ended with a new high score, which is queued and stored
C10_Witness ==
    /\ event.kind = "frame"
    /\ event.log # <<>>
    /\ event.log[Len(event.log)] = "gameOver"
    /\ isNewHighScore
    /\ score > highScore
    /\ pendingHighScore = score
    /\ storage = toString(score)


\* ------------------------------------------------------------------ the world offset
StartRaceStep == event'.kind = "startRace"

\* C11: while the screen is 'race' the world offset never decreases and the
\* score is floor(worldOffset * SCORE_COEFFICIENT), so the score never
\* decreases; in the other screens the world offset only changes by being set
\* to 0 when a race starts
C11_OffsetAndScore ==
    [][/\ (screen = "race" /\ screen' = "race")
            => (worldOffset' >= worldOffset /\ score' >= score)
       /\ screen' = "race"
            => score' = (worldOffset' * SCORE_COEFFICIENT) \div XScale
       /\ (screen # "race" /\ worldOffset' # worldOffset) => StartRaceStep]_vars

\* a race frame has scrolled the world and the score is the floor of a fraction
C11_Witness ==
    /\ screen = "race"
    /\ event.kind = "frame"
    /\ worldOffset > 0
    /\ (worldOffset * SCORE_COEFFICIENT) % XScale # 0
    /\ score = (worldOffset * SCORE_COEFFICIENT) \div XScale

\* ------------------------------------------------------------------ the race start
\* C12: handleStartRace leaves worldOffset = 0, lastFrameTime = 0, the physics
\* state all zero and false, the dive key not held, no obstacle, an empty
\* history and last-spawn marker 0, whatever the state before
C12_StartRaceResets ==
    [][StartRaceStep =>
        /\ worldOffset' = 0
        /\ lastFrameTime' = 0
        /\ physics' = [velocityY |-> 0, isJumping |-> FALSE, isDiving |-> FALSE,
                       diveProgress |-> 0, actionCooldown |-> 0]
        /\ isDownKeyHeld' = FALSE
        /\ mgr'.obstacles = <<>>
        /\ mgr'.obstacleHistory = <<>>
        /\ mgr'.lastObstacleWorldX = 0]_vars

\* a race was started again from the game-over screen of a race that had
\* scrolled and spawned
C12_Witness ==
    /\ event.kind = "startRace"
    /\ screen = "gameOver"
    /\ storage = toString(57)
    /\ worldOffset = 0
    /\ mgr.obstacleHistory = <<>>

\* ------------------------------------------------------------------ the finish
\* a race frame of the two-lane race, before which no lane had finished
FirstFinishFrame ==
    /\ lanes'.frame.race
    /\ front(lanes.view, lanes.red) < finishLine(lanes.view)
    /\ front(lanes.view, lanes.blue) < finishLine(lanes.view)

\* the lane's position after the frame's increment has reached the finish
Reached(pos) == front(lanes.view, pos) >= finishLine(lanes.view)

\* C13: on the frame that first detects the finish, if exactly one lane has
\* reached the finish, that lane is the winner: red for lane 1, blue for lane 2
C13_ReachedLaneWins ==
    [][FirstFinishFrame =>
        /\ (Reached(lanes'.frame.red) /\ ~Reached(lanes'.frame.blue))
                => (lanes'.winner = "red" /\ lanes'.pendingScreen # "race")
        /\ (Reached(lanes'.frame.blue) /\ ~Reached(lanes'.frame.red))
                => (lanes'.winner = "blue" /\ lanes'.pendingScreen # "race")]_vars

\* lane 2 alone has just crossed the finish and blue is the winner
C13_Witness ==
    /\ lanes.frame.race
    /\ lanes.frame.blue > FINISH
    /\ lanes.frame.blue < FINISH + laneStep(LoudScale, SINGING_BOOST_X10)
    /\ lanes.frame.red < FINISH
    /\ lanes.view = "canvas"
    /\ lanes.winner = "blue"

\* C14: when both lanes reach the finish in the same frame, the lane whose
\* position after that frame's increment is strictly larger is the winner
C14_LargerWins ==
    [][(/\ FirstFinishFrame
        /\ Reached(lanes'.frame.red)
        /\ Reached(lanes'.frame.blue))
            => /\ lanes'.frame.red > lanes'.frame.blue => lanes'.winner = "red"
               /\ lanes'.frame.blue > lanes'.frame.red => lanes'.winner = "blue"]_vars

\* ------------------------------------------------------------------ the loudness
\* the band lies within the array
InBounds == audio.startBin >= 0 /\ audio.endBin <= Len(audio.data)

\* C15: for startBin < endBin within the array getFrequencyAverage is in
\* [0, 1]; for startBin >= endBin it is exactly 0
C15_LoudnessRange ==
    audio.called =>
        /\ audio.result.den > 0
        /\ (audio.startBin < audio.endBin /\ InBounds)
                => (0 <= audio.result.num /\ audio.result.num <= audio.result.den)
        /\ audio.startBin >= audio.endBin => audio.result.num = 0

\* a band of two bins, one of them saturated
C15_Witness ==
    /\ audio.called
    /\ audio.startBin < audio.endBin
    /\ InBounds
    /\ audio.endBin - audio.startBin = 2
    /\ \E i \in (audio.startBin + 1)..audio.endBin : audio.data[i] = MAX_AUDIO_VALUE
    /\ audio.result.num > 0

\* the bins of the band whose byte is v
BinsWith(v) == {i \in (audio.startBin + 1)..audio.endBin : audio.data[i] = v}

\* the sum over the band of max(0, data[i] - NOISE_THRESHOLD), byte value by
\* byte value
RectifiedSum ==
    Cardinality(BinsWith(NOISE_THRESHOLD + 1))
    + Cardinality(BinsWith(MAX_AUDIO_VALUE)) * (MAX_AUDIO_VALUE - NOISE_THRESHOLD)

\* C16: for startBin < endBin getFrequencyAverage is the sum over the band of
\* max(0, data[i] - NOISE_THRESHOLD) divided by (endBin - startBin) and by
\* (255 - NOISE_THRESHOLD): 0 when no bin exceeds the threshold, 1 when the
\* band is saturated at 255; the debug overlay's normalized value is the same
C16_LoudnessFormula ==
    (audio.called /\ audio.startBin < audio.endBin /\ InBounds) =>
        /\ audio.result.num = RectifiedSum
        /\ audio.result.den = (audio.endBin - audio.startBin) * (255 - NOISE_THRESHOLD)
        /\ (\A i \in (audio.startBin + 1)..audio.endBin :
                audio.data[i] <= NOISE_THRESHOLD) => audio.result.num = 0
        /\ (\A i \in (audio.startBin + 1)..audio.endBin : audio.data[i] = 255)
                => audio.result.num = audio.result.den
        /\ audio.normalized = audio.result

\* a band of a larger array, partly above the noise floor
C16_Witness ==
    /\ audio.called
    /\ InBounds
    /\ audio.startBin = 1
    /\ audio.endBin = Len(audio.data)
    /\ audio.endBin - audio.startBin = 2
    /\ audio.data[1] = MAX_AUDIO_VALUE
    /\ audio.data[2] = NOISE_THRESHOLD + 1
    /\ audio.data[3] = NOISE_THRESHOLD
    /\ audio.result.num = 1

\* ------------------------------------------------------------------ missing input
Steps(log) == {log[i] : i \in DOMAIN log}

\* a race frame that ran the boat block without frequency data
SilentFrame ==
    /\ event'.kind = "frame"
    /\ boat = "loaded"
    /\ "triggerEval" \notin Steps(event'.log)

C18_SimulationSurvives ==
    (boat = "failed" /\ event.kind = "frame")
        => {"cooldownDecay", "integrate", "spawn", "update", "collision"}
               \subseteq Steps(event.log)

\* ------------------------------------------------------------------ landing and diving
\* C19: the updatePhysics call in which a jumping body's candidate Y is at or
\* below the call's waterLevel returns that waterLevel, zeroes velocityY,
\* clears isJumping and sets actionCooldown = ACTION_COOLDOWN; every other
\* call while jumping returns a Y strictly above the call's waterLevel
C19_LandsOnCurrentLevel ==
    [][(lastCall'.op = "updatePhysics" /\ physics.isJumping) =>
        LET candidate == lastCall'.waterLevel
                         + Rise(physics.velocityY - GravityStep(lastCall'.dt),
                                lastCall'.dt)
        IN  IF candidate <= lastCall'.waterLevel
            THEN /\ lastCall'.y = lastCall'.waterLevel
                 /\ physics'.velocityY = 0
                 /\ ~physics'.isJumping
                 /\ physics'.actionCooldown = ACTION_COOLDOWN
            ELSE /\ lastCall'.y > lastCall'.waterLevel
                 /\ physics'.isJumping]_vars

\* a jump whose updates did not all see the same dt and water level has landed
\* on a wave crest
C19_Witness ==
    /\ lastCall.op = "updatePhysics"
    /\ lastCall.landed
    /\ jumpTrack.void
    /\ lastCall.waterLevel > BOAT_BASE_Y
    /\ lastCall.y = lastCall.waterLevel

\* C20: diveProgress stays in [0, 1]; while diving an update with the dive held
\* never lowers it and one without never raises it; isDiving is cleared exactly
\* by the update that brings diveProgress to 0 with the dive not held, and that
\* update only decays actionCooldown
C20_DiveProgress ==
    [][/\ physics'.diveProgress >= 0
       /\ physics'.diveProgress <= ProgScale
       /\ (lastCall'.op = "updatePhysics" /\ physics.isDiving) =>
            /\ lastCall'.held => physics'.diveProgress >= physics.diveProgress
            /\ ~lastCall'.held => physics'.diveProgress <= physics.diveProgress
            /\ ~physics'.isDiving <=> (~lastCall'.held /\ physics'.diveProgress = 0)
            /\ physics'.actionCooldown
                   = Max(0, physics.actionCooldown - lastCall'.dt)]_vars

\* a dive that had gone under came back to the surface and ended while the
\* cooldown of an earlier landing was still running
C20_Witness ==
    /\ lastCall.op = "updatePhysics"
    /\ ~lastCall.held
    /\ ~physics.isDiving
    /\ ~physics.isJumping
    /\ physics.diveProgress = 0
    /\ physics.actionCooldown > 0
    /\ sinceLanding > 0
    /\ sinceLanding < ACTION_COOLDOWN
    /\ physics.actionCooldown = ACTION_COOLDOWN - sinceLanding

\* ------------------------------------------------------------------ cooldown
\* C21: every updatePhysics call that is not a landing leaves actionCooldown at
\* max(0, actionCooldown - dt), whether the boat floats, jumps or dives, and a
\* landing leaves it at ACTION_COOLDOWN; actionCooldown stays within
\* [0, ACTION_COOLDOWN]; ceil(ACTION_COOLDOWN / dt) + 1 updates of dt each
\* after a landing bring it to 0, and triggerJump on an idle state then succeeds
C21_CooldownDecay ==
    [][/\ physics'.actionCooldown >= 0
       /\ physics'.actionCooldown <= ACTION_COOLDOWN
       /\ lastCall'.op = "updatePhysics" =>
            physics'.actionCooldown
                = IF lastCall'.landed THEN ACTION_COOLDOWN
                  ELSE Max(0, physics.actionCooldown - lastCall'.dt)
       /\ (/\ afterLanding'.live
           /\ ~afterLanding'.void
           /\ afterLanding'.n > 0
           /\ afterLanding'.n >= CooldownUpdates(afterLanding'.dt))
          => physics'.actionCooldown = 0
       /\ (/\ lastCall'.op = "triggerJump"
           /\ Idle(physics)
           /\ afterLanding.live
           /\ ~afterLanding.void
           /\ afterLanding.n > 0
           /\ afterLanding.n >= CooldownUpdates(afterLanding.dt))
          => (lastCall'.ret /\ physics'.isJumping)]_vars

\* the boat landed, dived during the cooldown, and after
\* ceil(ACTION_COOLDOWN / dt) + 1 updates of the same dt jumped again
C21_Witness ==
    /\ lastCall.op = "triggerJump"
    /\ lastCall.ret
    /\ physics.isJumping
    /\ afterLanding.live
    /\ ~afterLanding.void
    /\ afterLanding.dt = MaxDt
    /\ afterLanding.n = CooldownUpdates(afterLanding.dt)

\* an update during a dive while the cooldown of a landing was running
C21_WitnessDiving ==
    /\ lastCall.op = "updatePhysics"
    /\ physics.isDiving
    /\ physics.actionCooldown > 0
    /\ physics.actionCooldown < ACTION_COOLDOWN

\* ------------------------------------------------------------------ spawn delay
\* C22: a trySpawn call with worldOffset / WORLD_SCROLL_SPEED <=
\* OBSTACLE_SPAWN_DELAY creates no obstacle and changes no field of the
\* manager, and every obstacle spawned has worldX >= OBSTACLE_SPAWN_DELAY *
\* WORLD_SCROLL_SPEED + OBSTACLE_SPAWN_DISTANCE (17)
C22_SpawnDelay ==
    [][atDelay'.op = "trySpawn" =>
        /\ timeSinceStart(atDelay'.k) <= 0 =>
              /\ atDelay'.obstacles = atDelay.obstacles
              /\ atDelay'.lastObstacleWorldX = atDelay.lastObstacleWorldX
        /\ \A i \in 1..Len(atDelay'.obstacles) : atDelay'.obstacles[i] >= 0]_vars

\* the first call past the delay spawned, and a later call within the delay
\* left that obstacle and lastObstacleWorldX alone
C22_Witness ==
    /\ atDelay.op = "trySpawn"
    /\ atDelay.k <= 0
    /\ Len(atDelay.obstacles) = 1
    /\ atDelay.lastObstacleWorldX = atDelay.obstacles[1]

\* C22 as stated: every obstacle spawned has worldX > 17.  The call with
\* the double next above 9 spawns at worldOffset + 8, which rounds to 17
C22_StrictlyBeyond ==
    \A i \in 1..Len(atDelay.obstacles) : atDelay.obstacles[i] > 0

\* ------------------------------------------------------------------ spacing
\* C23: a trySpawn call adds at most one obstacle, at worldOffset +
\* OBSTACLE_SPAWN_DISTANCE, and whatever the random gap that obstacle is more
\* than OBSTACLE_MIN_GAP beyond the one spawned before it in the same race
\* (lastObstacleWorldX); so are any two neighbours in the list
C23_Spacing ==
    [][/\ Len(mgr'.obstacles) <= Len(mgr.obstacles) + 1
       /\ Len(mgr'.obstacles) = Len(mgr.obstacles) + 1 =>
            LET new == mgr'.obstacles[Len(mgr'.obstacles)]
            IN  /\ SubSeq(mgr'.obstacles, 1, Len(mgr.obstacles)) = mgr.obstacles
                /\ new.worldX = worldOffset' + OBSTACLE_SPAWN_DISTANCE * XScale
                /\ mgr'.lastObstacleWorldX = new.worldX
                /\ mgr.lastObstacleWorldX # 0 =>
                      new.worldX - mgr.lastObstacleWorldX > OBSTACLE_MIN_GAP * XScale
       /\ \A i \in 1..(Len(mgr'.obstacles) - 1) :
              mgr'.obstacles[i + 1].worldX - mgr'.obstacles[i].worldX
                  > OBSTACLE_MIN_GAP * XScale]_vars

\* the second obstacle of a race was just spawned, one world unit past the
\* minimum gap from the first
C23_Witness ==
    /\ Len(mgr.obstacles) >= 2
    /\ mgr.lastObstacleWorldX = mgr.obstacles[Len(mgr.obstacles)].worldX
    /\ mgr.obstacles[2].worldX - mgr.obstacles[1].worldX
           = (OBSTACLE_MIN_GAP + 1) * XScale
    /\ worldOffset = mgr.lastObstacleWorldX - OBSTACLE_SPAWN_DISTANCE * XScale

\* ------------------------------------------------------------------ slider range
\* C24: every range the slider handler produces has start < end, with both
\* values within [0, MAX_SLIDER_BIN].  A start thumb dragged onto or past the
\* end thumb produces a range with start = end
C24_StartBelowEnd ==
    /\ slider.range.start < slider.range.end
    /\ slider.range.start >= 0
    /\ slider.range.end <= MAX_SLIDER_BIN

\* ------------------------------------------------------------------ termination
\* an update with the dive held
HeldUpdate == lastCall.op = "updatePhysics" /\ lastCall.held

C26_RestValues ==
    /\ physics.velocityY # 0 => physics.isJumping
    /\ physics.diveProgress > 0 => physics.isDiving

\* a dive that had gone under has just ended, after a jump had landed
C26_Witness ==
    /\ lastCall.op = "updatePhysics"
    /\ lastCall.ended = "dive"
    /\ sinceLanding > 0
    /\ physics.velocityY = 0
    /\ physics.diveProgress = 0
    /\ Idle(physics)

\* ------------------------------------------------------------------ winner
\* C27: once the winner of a race is set it is not changed to the other lane.
\* A frame that still sees screen = 'race' after the finish was detected runs
\* the winner check again, on the positions it has moved further
C27_WinnerStable ==
    [][(lanes.winner # "null" /\ lanes'.winner # "null")
          => lanes'.winner = lanes.winner]_vars

\* ------------------------------------------------------------------ microphone
\* C28: under any interleaving of start() and stop() at most one microphone
\* stream is live, and once stop() has returned and no start() call is
\* awaiting getUserMedia no acquired stream is left live.  A start() that
\* resumes after a second start() finds the second call's AudioContext, keeps
\* its stream, and the second call's stream then replaces it in streamRef
C28_OneStream ==
    /\ Cardinality(mic.live) <= 1
    /\ (mic.op = "stop" /\ mic.awaiting = {}) => mic.live = {}

\* ------------------------------------------------------------------ the screens
\* the order of the screens of the endless runner
ScreenOrder ==
    {<<"setup", "countdown">>, <<"countdown", "race">>,
     <<"race", "gameOverAnimation">>, <<"gameOverAnimation", "gameOver">>,
     <<"gameOver", "countdown">>}

\* C29: the screen only moves along setup -> countdown -> race ->
\* gameOverAnimation -> gameOver -> countdown; 'gameOverAnimation' is queued
\* only by a race frame that detected a collision, 'race' only by the
\* countdown and 'gameOver' only by the game-over animation; the physics state,
\* the world offset, the score and the obstacles change only while the screen
\* is 'race', except that a race start resets them
C29_ScreenOrder ==
    [][/\ screen' # screen => <<screen, screen'>> \in ScreenOrder
       /\ pendingScreen' # pendingScreen =>
            /\ <<screen, pendingScreen'>> \in ScreenOrder
            /\ pendingScreen' = "gameOverAnimation" => GameOverStep
            /\ pendingScreen' = "countdown" => StartRaceStep
       /\ GameOverStep => (/\ screen = "race"
                           /\ \E i \in 1..Len(event'.log) : event'.log[i] = "collision")
       /\ StartRaceStep => screen \in {"setup", "gameOver"}
       /\ (/\ <<physics, worldOffset, score, mgr>>' # <<physics, worldOffset, score, mgr>>
           /\ ~StartRaceStep) => screen = "race"]_vars

\* a second race is running after a game over with a new high score and a
\* play-again, and has scrolled the world
C29_Witness ==
    /\ screen = "race"
    /\ pendingScreen = "race"
    /\ isNewHighScore
    /\ event.kind = "frame"
    /\ worldOffset > 0
    /\ mgr.obstacles # <<>>

\* ------------------------------------------------------------------ the game over
\* a game over is queued or shown and no race has been started since
RaceEnded == pendingScreen \in {"gameOverAnimation", "gameOver"}

\* C30: the frame that detects the collision calls handleGameOver, does not
\* run removeOffScreen and leaves no frame requested; from then until the next
\* race start no race frame runs (no world-offset advance, spawn, collision
\* check or high-score comparison), so handleGameOver runs at most once per race
C30_GameOverOnce ==
    [][/\ GameOverStep =>
            /\ ~rafPending'
            /\ RaceEnded'
            /\ \A i \in 1..Len(event'.log) : event'.log[i] # "cleanup"
       /\ RaceEnded => event'.kind # "frame"
       /\ (RaceEnded /\ ~RaceEnded') => StartRaceStep
       /\ (RaceEnded /\ ~StartRaceStep) =>
            <<worldOffset, mgr, pendingHighScore, storage, isNewHighScore>>'
                = <<worldOffset, mgr, pendingHighScore, storage, isNewHighScore>>]_vars

\* the collision frame of a race that beat no high score has run: nothing is
\* requested, the obstacle that was hit is still in the manager
C30_Witness ==
    /\ event.kind = "frame"
    /\ event.log # <<>>
    /\ event.log[Len(event.log)] = "gameOver"
    /\ screen = "race"
    /\ pendingScreen = "gameOverAnimation"
    /\ ~rafPending
    /\ ~isNewHighScore
    /\ mgr.obstacles # <<>>

\* the game-over animation runs frames after the collision frame
C30_WitnessAnimation ==
    /\ screen = "gameOverAnimation"
    /\ rafPending
    /\ RaceEnded

====
